---- MODULE Spec2Model ----
(***************************************************************************)
(* The ledger core of dmbc: the fork (wallets, asset registry, status      *)
(* records), the Exchange and AddAssets handlers (verify / process /       *)
(* execute) and the unimplemented ExchangeIntermediary handler.            *)
(*                                                                         *)
(* A public key is a short string, an asset identifier is the pair         *)
(* <<data, key>> (the hash of data and key, taken to be collision free),   *)
(* a transaction hash is the transaction itself.  Maps (a wallet's assets, *)
(* the registry, the status index, a HashMap) are functions whose DOMAIN   *)
(* is the set of keys present.  Amounts are kept far below 2^64.           *)
(***************************************************************************)
EXTENDS Integers, Sequences, FiniteSets, TLC

VARIABLES
    wallets,    \* wallet::Schema index of the fork: key -> Wallet
    assets,     \* asset::Schema index of the fork: AssetId -> AssetInfo
    statuses,   \* status::Schema index of the fork: tx hash -> result
    config,     \* Configuration stored in the fork (fee table)
    fuzzing,    \* cfg!(fuzzing) of the build
    last,       \* the last call of the host, its fork before, its outcome
    calls,      \* number of host calls made so far
    node        \* dmbc-node: connect_validator, its threads, the discovery

vars == <<wallets, assets, statuses, config, fuzzing, last, calls, node>>

\* a node that has not called connect_validator, the discovery service
\* holding the set registered
NodeIdle(registered) ==
    [service |-> registered, pc |-> "idle", info |-> "none", nodes |-> {},
     before |-> 0,
     result |-> [ok |-> FALSE, err |-> "none", nodes |-> {}],
     threads |-> <<>>, log |-> 0]

-----------------------------------------------------------------------------
(* Bounds and input sets *)

MaxTx == 2

GENESIS == "G"
Parties == {"G", "A", "B"}
Keys == Parties \cup {"C"}

EmptyMap == [x \in {} |-> 0]

-----------------------------------------------------------------------------
(* Asset identifiers, bundles, wallets *)

AssetIdFromData(data, pub_key) == <<data, pub_key>>

AssetBundleNew(id, amount) == [id |-> id, amount |-> amount]

AssetBundleFromData(data, amount, pub_key) ==
    AssetBundleNew(AssetIdFromData(data, pub_key), amount)

WalletNew(balance, held) == [balance |-> balance, assets |-> held]

Holding(wallet, id) ==
    IF id \in DOMAIN wallet.assets THEN wallet.assets[id] ELSE 0

\* wallet::Schema(view).fetch / store
WalletFetch(ws, key) == ws[key]

WalletStore(ws, key, wallet) == [ws EXCEPT ![key] = wallet]

\* asset::Schema(view).fetch: Option<AssetInfo>
AssetKnown(reg, id) == id \in DOMAIN reg

AssetStore(reg, id, info) ==
    [x \in DOMAIN reg \cup {id} |-> IF x = id THEN info ELSE reg[x]]

\* status::Schema(view).store: overwrites the entry of the hash
StatusStore(st, hash, result) ==
    [x \in DOMAIN st \cup {hash} |-> IF x = hash THEN result ELSE st[x]]

Hash(tx) == tx

Ok == [ok |-> TRUE, err |-> "none"]
Err(kind) == [ok |-> FALSE, err |-> kind]

-----------------------------------------------------------------------------
(* Transfer primitives *)

\* variant: the balance must exceed the amount
move_coins_strict(from, to, amount) ==
    IF from.balance <= amount
    THEN [ok |-> FALSE, err |-> "InsufficientFunds", from |-> from, to |-> to]
    ELSE [ok |-> TRUE, err |-> "none",
          from |-> [from EXCEPT !.balance = @ - amount],
          to |-> [to EXCEPT !.balance = @ + amount]]

move_coins(from, to, amount) ==
    IF from.balance < amount
    THEN [ok |-> FALSE, err |-> "InsufficientFunds", from |-> from, to |-> to]
    ELSE [ok |-> TRUE, err |-> "none",
          from |-> [from EXCEPT !.balance = @ - amount],
          to |-> [to EXCEPT !.balance = @ + amount]]

AddHolding(held, id, amount) ==
    [x \in DOMAIN held \cup {id} |->
        IF x = id
        THEN (IF id \in DOMAIN held THEN held[id] ELSE 0) + amount
        ELSE held[x]]

SubHolding(held, id, amount) ==
    IF held[id] = amount
    THEN [x \in DOMAIN held \ {id} |-> held[x]]
    ELSE [x \in DOMAIN held |-> IF x = id THEN held[x] - amount ELSE held[x]]

\* Wallet::push_assets: merges each bundle into the wallet's holdings
RECURSIVE push_assets(_, _)
push_assets(wallet, bundles) ==
    IF bundles = <<>>
    THEN wallet
    ELSE push_assets(
            [wallet EXCEPT !.assets =
                AddHolding(@, Head(bundles).id, Head(bundles).amount)],
            Tail(bundles))

RECURSIVE MoveAssetsSeq(_, _, _)
MoveAssetsSeq(from, to, bundles) ==
    IF bundles = <<>>
    THEN [ok |-> TRUE, err |-> "none", from |-> from, to |-> to]
    ELSE LET b == Head(bundles) IN
         IF b.id \notin DOMAIN from.assets \/ Holding(from, b.id) < b.amount
         THEN [ok |-> FALSE, err |-> "InsufficientAssets",
               from |-> from, to |-> to]
         ELSE MoveAssetsSeq(
                [from EXCEPT !.assets = SubHolding(@, b.id, b.amount)],
                [to EXCEPT !.assets = AddHolding(@, b.id, b.amount)],
                Tail(bundles))
\* variant: the bundles that precede the failing one stay moved
move_assets_partial(from, to, bundles) == MoveAssetsSeq(from, to, bundles)

move_assets(from, to, bundles) ==
    LET r == MoveAssetsSeq(from, to, bundles) IN
    IF r.ok THEN r
    ELSE [ok |-> FALSE, err |-> r.err, from |-> from, to |-> to]

-----------------------------------------------------------------------------
(* Fee strategy and third party fees *)

NoStrategy == "None"

\* FeeStrategy::try_from(u8)
FeeStrategyTryFrom(byte) ==
    CASE byte = 1 -> "Recipient"
      [] byte = 2 -> "Sender"
      [] byte = 3 -> "RecipientAndSender"
      [] byte = 4 -> "Intermediary"
      [] OTHER -> NoStrategy

RECURSIVE FeesOfBundles(_, _, _)
FeesOfBundles(reg, bundles, acc) ==
    IF bundles = <<>>
    THEN [ok |-> TRUE, err |-> "none", fees |-> acc]
    ELSE LET b == Head(bundles) IN
         IF ~AssetKnown(reg, b.id)
         THEN [ok |-> FALSE, err |-> "AssetNotFound", fees |-> EmptyMap]
         ELSE LET info == reg[b.id]
                  fee == info.tax * b.amount
                  old == IF info.creator \in DOMAIN acc
                         THEN acc[info.creator] ELSE 0
              IN FeesOfBundles(reg, Tail(bundles),
                    [k \in DOMAIN acc \cup {info.creator} |->
                        IF k = info.creator THEN old + fee ELSE acc[k]])

\* ThirdPartyFees::new_exchange: creator -> tax owed, or AssetNotFound
ThirdPartyFeesNewExchange(reg, bundles) == FeesOfBundles(reg, bundles, EmptyMap)

RECURSIVE SumOver(_, _)
SumOver(f, S) ==
    IF S = {} THEN 0
    ELSE LET k == CHOOSE x \in S : TRUE IN f[k] + SumOver(f, S \ {k})

\* ThirdPartyFees::collect: the payer pays every other creator its fee, on
\* copies of the wallets; returns the copies, writes nothing
ThirdPartyFeesCollect(ws, fees, payer) ==
    LET others == DOMAIN fees \ {payer}
        total == SumOver(fees, others)
    IN IF ws[payer].balance < total
       THEN [ok |-> FALSE, err |-> "InsufficientFunds", updated |-> EmptyMap]
       ELSE [ok |-> TRUE, err |-> "none",
             updated |-> [k \in others \cup {payer} |->
                IF k = payer
                THEN [ws[k] EXCEPT !.balance = @ - total]
                ELSE [ws[k] EXCEPT !.balance = @ + fees[k]]]]

\* one payment inside collect2, on the working copies w (key -> Wallet)
PayOn(w, from, to, amount) ==
    IF ~w.ok THEN w
    ELSE LET m == move_coins(w.ws[from], w.ws[to], amount) IN
         IF ~m.ok THEN [ok |-> FALSE, ws |-> w.ws, touched |-> w.touched]
         ELSE [ok |-> TRUE,
               ws |-> [w.ws EXCEPT ![from] = m.from, ![to] = m.to],
               touched |-> w.touched \cup {from, to}]

RECURSIVE Collect2Others(_, _, _, _, _)
Collect2Others(w, fees, S, p1, p2) ==
    IF S = {} THEN w
    ELSE LET c == CHOOSE x \in S : TRUE
             half == fees[c] \div 2
         IN Collect2Others(PayOn(PayOn(w, p1, c, half), p2, c, half),
                           fees, S \ {c}, p1, p2)

\* ThirdPartyFees::collect2: the two payers pay half of every fee each
ThirdPartyFeesCollect2(ws, fees, p1, p2) ==
    LET w0 == [ok |-> TRUE, ws |-> ws, touched |-> {p1, p2}]
        w1 == IF p1 \in DOMAIN fees
              THEN PayOn(w0, p2, p1, fees[p1] \div 2) ELSE w0
        w2 == IF p2 \in DOMAIN fees
              THEN PayOn(w1, p1, p2, fees[p2] \div 2) ELSE w1
        w3 == Collect2Others(w2, fees, DOMAIN fees \ {p1, p2}, p1, p2)
    IN IF ~w3.ok
       THEN [ok |-> FALSE, err |-> "InsufficientFunds", updated |-> EmptyMap]
       ELSE [ok |-> TRUE, err |-> "none",
             updated |-> [k \in w3.touched |-> w3.ws[k]]]

-----------------------------------------------------------------------------
(* Exchange: process *)

MapRemove(m, key) == [k \in DOMAIN m \ {key} |-> m[k]]

MapInsert(m, key, value) ==
    [k \in DOMAIN m \cup {key} |-> IF k = key THEN value ELSE m[k]]

\* Configuration::extract(view).fees().exchange()
ExchangeGenesisFee(cfg) == cfg.exchange

\* each party's part of the flat fee under RecipientAndSender
SplitShare(genesis_fee) == genesis_fee \div 2

\* the arms of the match that collects the blockchain fee; each returns the
\* view's wallets after its stores and its copy of the genesis wallet
FlatFeeRecipient(ws, genesis, offer, genesis_fee) ==
    LET recipient == WalletFetch(ws, offer.recipient)
        m == move_coins(recipient, genesis, genesis_fee)
    IN IF ~m.ok
       THEN [ok |-> FALSE, err |-> m.err, ws |-> ws, genesis |-> genesis]
       ELSE [ok |-> TRUE, err |-> "none",
             ws |-> WalletStore(ws, offer.recipient, m.from),
             genesis |-> m.to]

FlatFeeSender(ws, genesis, offer, genesis_fee) ==
    LET sender == WalletFetch(ws, offer.sender)
        m == move_coins(sender, genesis, genesis_fee)
    IN IF ~m.ok
       THEN [ok |-> FALSE, err |-> m.err, ws |-> ws, genesis |-> genesis]
       ELSE [ok |-> TRUE, err |-> "none",
             ws |-> WalletStore(ws, offer.sender, m.from),
             genesis |-> m.to]

\* variant: the recipient's wallet is stored before the sender's part is moved
FlatFeeRecipientAndSenderEager(ws, genesis, offer, genesis_fee) ==
    LET recipient == WalletFetch(ws, offer.recipient)
        sender == WalletFetch(ws, offer.sender)
        m1 == move_coins(recipient, genesis, SplitShare(genesis_fee))
        ws1 == WalletStore(ws, offer.recipient, m1.from)
        m2 == move_coins(sender, m1.to, SplitShare(genesis_fee))
    IN IF ~m1.ok
       THEN [ok |-> FALSE, err |-> m1.err, ws |-> ws, genesis |-> genesis]
       ELSE IF ~m2.ok
       THEN [ok |-> FALSE, err |-> m2.err, ws |-> ws1, genesis |-> genesis]
       ELSE [ok |-> TRUE, err |-> "none",
             ws |-> WalletStore(ws1, offer.sender, m2.from),
             genesis |-> m2.to]
\* variant: the sender's half is moved and stored before the recipient's
FlatFeeSenderAndRecipientEager(ws, genesis, offer, genesis_fee) ==
    LET recipient == WalletFetch(ws, offer.recipient)
        sender == WalletFetch(ws, offer.sender)
        m1 == move_coins(sender, genesis, SplitShare(genesis_fee))
        ws1 == WalletStore(ws, offer.sender, m1.from)
        m2 == move_coins(recipient, m1.to, SplitShare(genesis_fee))
    IN IF ~m1.ok
       THEN [ok |-> FALSE, err |-> m1.err, ws |-> ws, genesis |-> genesis]
       ELSE IF ~m2.ok
       THEN [ok |-> FALSE, err |-> m2.err, ws |-> ws1, genesis |-> genesis]
       ELSE [ok |-> TRUE, err |-> "none",
             ws |-> WalletStore(ws1, offer.recipient, m2.from),
             genesis |-> m2.to]

FlatFeeRecipientAndSender(ws, genesis, offer, genesis_fee) ==
    LET recipient == WalletFetch(ws, offer.recipient)
        sender == WalletFetch(ws, offer.sender)
        m1 == move_coins(recipient, genesis, SplitShare(genesis_fee))
        m2 == move_coins(sender, m1.to, SplitShare(genesis_fee))
    IN IF ~m1.ok
       THEN [ok |-> FALSE, err |-> m1.err, ws |-> ws, genesis |-> genesis]
       ELSE IF ~m2.ok
       THEN [ok |-> FALSE, err |-> m2.err, ws |-> ws, genesis |-> genesis]
       ELSE [ok |-> TRUE, err |-> "none",
             ws |-> WalletStore(WalletStore(ws, offer.sender, m2.from),
                                offer.recipient, m1.from),
             genesis |-> m2.to]

\* Collect the blockchain fee, then store the genesis wallet
CollectGenesisFee(ws, fee_strategy, offer, genesis_fee) ==
    LET genesis == WalletFetch(ws, GENESIS)
        r == CASE fee_strategy = "Recipient" ->
                    FlatFeeRecipient(ws, genesis, offer, genesis_fee)
               [] fee_strategy = "Sender" ->
                    FlatFeeSender(ws, genesis, offer, genesis_fee)
               [] fee_strategy = "RecipientAndSender" ->
                    FlatFeeRecipientAndSender(ws, genesis, offer, genesis_fee)
               [] OTHER ->
                    [ok |-> FALSE, err |-> "InvalidTransaction",
                     ws |-> ws, genesis |-> genesis]
    IN IF ~r.ok
       THEN [ok |-> FALSE, err |-> r.err, ws |-> r.ws]
       ELSE [ok |-> TRUE, err |-> "none",
             ws |-> WalletStore(r.ws, GENESIS, r.genesis)]
\* variant: under Recipient the taxes are charged to the sender
CollectThirdPartySenderPays(ws, fees, fee_strategy, offer) ==
    CASE fee_strategy = "Recipient" ->
            ThirdPartyFeesCollect(ws, fees, offer.sender)
      [] fee_strategy = "Sender" ->
            ThirdPartyFeesCollect(ws, fees, offer.sender)
      [] OTHER ->
            ThirdPartyFeesCollect2(ws, fees, offer.sender, offer.recipient)

\* Process third party fees: the wallets updated by the collection
CollectThirdParty(ws, fees, fee_strategy, offer) ==
    CASE fee_strategy = "Recipient" ->
            ThirdPartyFeesCollect(ws, fees, offer.recipient)
      [] fee_strategy = "Sender" ->
            ThirdPartyFeesCollect(ws, fees, offer.sender)
      [] OTHER ->
            ThirdPartyFeesCollect2(ws, fees, offer.sender, offer.recipient)

\* variant: the recipient's bundles are checked but not moved
PrincipalMovesOneWay(ws, updated_wallets, offer) ==
    LET sender == IF offer.sender \in DOMAIN updated_wallets
                  THEN updated_wallets[offer.sender]
                  ELSE WalletFetch(ws, offer.sender)
        u1 == MapRemove(updated_wallets, offer.sender)
        recipient == IF offer.recipient \in DOMAIN u1
                     THEN u1[offer.recipient]
                     ELSE WalletFetch(ws, offer.recipient)
        u2 == MapRemove(u1, offer.recipient)
        m1 == move_coins(sender, recipient, offer.sender_value)
        m2 == move_assets(m1.from, m1.to, offer.sender_assets)
        m3 == move_assets(m2.to, m2.from, offer.recipient_assets)
    IN IF ~m1.ok
       THEN [ok |-> FALSE, err |-> m1.err, step |-> "coins",
             updated |-> EmptyMap]
       ELSE IF ~m2.ok
       THEN [ok |-> FALSE, err |-> m2.err, step |-> "sender_assets",
             updated |-> EmptyMap]
       ELSE IF ~m3.ok
       THEN [ok |-> FALSE, err |-> m3.err, step |-> "recipient_assets",
             updated |-> EmptyMap]
       ELSE [ok |-> TRUE, err |-> "none", step |-> "done",
             updated |-> MapInsert(MapInsert(u2, offer.sender, m2.from),
                                   offer.recipient, m2.to)]
\* variant: the recipient's bundles are moved before the sender's
PrincipalMovesRecipientFirst(ws, updated_wallets, offer) ==
    LET sender == IF offer.sender \in DOMAIN updated_wallets
                  THEN updated_wallets[offer.sender]
                  ELSE WalletFetch(ws, offer.sender)
        u1 == MapRemove(updated_wallets, offer.sender)
        recipient == IF offer.recipient \in DOMAIN u1
                     THEN u1[offer.recipient]
                     ELSE WalletFetch(ws, offer.recipient)
        u2 == MapRemove(u1, offer.recipient)
        m1 == move_coins(sender, recipient, offer.sender_value)
        m2 == move_assets(m1.to, m1.from, offer.recipient_assets)
        m3 == move_assets(m2.to, m2.from, offer.sender_assets)
    IN IF ~m1.ok
       THEN [ok |-> FALSE, err |-> m1.err, step |-> "coins",
             updated |-> EmptyMap]
       ELSE IF ~m2.ok
       THEN [ok |-> FALSE, err |-> m2.err, step |-> "recipient_assets",
             updated |-> EmptyMap]
       ELSE IF ~m3.ok
       THEN [ok |-> FALSE, err |-> m3.err, step |-> "sender_assets",
             updated |-> EmptyMap]
       ELSE [ok |-> TRUE, err |-> "none", step |-> "done",
             updated |-> MapInsert(MapInsert(u2, offer.sender, m3.from),
                                   offer.recipient, m3.to)]

\* Process the main transaction on the updated wallets
PrincipalMoves(ws, updated_wallets, offer) ==
    LET sender == IF offer.sender \in DOMAIN updated_wallets
                  THEN updated_wallets[offer.sender]
                  ELSE WalletFetch(ws, offer.sender)
        u1 == MapRemove(updated_wallets, offer.sender)
        recipient == IF offer.recipient \in DOMAIN u1
                     THEN u1[offer.recipient]
                     ELSE WalletFetch(ws, offer.recipient)
        u2 == MapRemove(u1, offer.recipient)
        m1 == move_coins(sender, recipient, offer.sender_value)
        m2 == move_assets(m1.from, m1.to, offer.sender_assets)
        m3 == move_assets(m2.to, m2.from, offer.recipient_assets)
    IN IF ~m1.ok
       THEN [ok |-> FALSE, err |-> m1.err, step |-> "coins",
             updated |-> EmptyMap]
       ELSE IF ~m2.ok
       THEN [ok |-> FALSE, err |-> m2.err, step |-> "sender_assets",
             updated |-> EmptyMap]
       ELSE IF ~m3.ok
       THEN [ok |-> FALSE, err |-> m3.err, step |-> "recipient_assets",
             updated |-> EmptyMap]
       ELSE [ok |-> TRUE, err |-> "none", step |-> "done",
             updated |-> MapInsert(MapInsert(u2, offer.sender, m3.to),
                                   offer.recipient, m3.from)]

\* Save changes to the database
SaveWallets(ws, updated_wallets) ==
    [k \in DOMAIN ws |->
        IF k \in DOMAIN updated_wallets THEN updated_wallets[k] ELSE ws[k]]

Returned(result, step, ws, reg) ==
    [panic |-> FALSE, result |-> result, step |-> step,
     wallets |-> ws, assets |-> reg]

Panicked(step, ws, reg) ==
    [panic |-> TRUE, result |-> Err("panic"), step |-> step,
     wallets |-> ws, assets |-> reg]
\* variant: the error of the fees lookup is not returned
ExchangeProcessSkipsUnknown(ws, reg, cfg, tx) ==
    LET genesis_fee == ExchangeGenesisFee(cfg)
        offer == tx.offer
        fee_strategy == FeeStrategyTryFrom(offer.fee_strategy)
        flat == CollectGenesisFee(ws, fee_strategy, offer, genesis_fee)
        fees == ThirdPartyFeesNewExchange(reg,
                    offer.sender_assets \o offer.recipient_assets)
        third == CollectThirdParty(flat.ws, fees.fees, fee_strategy, offer)
        main == PrincipalMoves(flat.ws, third.updated, offer)
    IN IF fee_strategy = NoStrategy
       THEN Panicked("fee_strategy", ws, reg)
       ELSE IF ~flat.ok
       THEN Returned(Err(flat.err), "genesis_fee", flat.ws, reg)
       ELSE IF ~third.ok
       THEN Returned(Err(third.err), "third_party", flat.ws, reg)
       ELSE IF ~main.ok
       THEN Returned(Err(main.err), main.step, flat.ws, reg)
       ELSE Returned(Ok, "done", SaveWallets(flat.ws, main.updated), reg)

\* Exchange::process: the outcome and the fork's wallets after it
ExchangeProcess(ws, reg, cfg, tx) ==
    LET genesis_fee == ExchangeGenesisFee(cfg)
        offer == tx.offer
        fee_strategy == FeeStrategyTryFrom(offer.fee_strategy)
        flat == CollectGenesisFee(ws, fee_strategy, offer, genesis_fee)
        fees == ThirdPartyFeesNewExchange(reg,
                    offer.sender_assets \o offer.recipient_assets)
        third == CollectThirdParty(flat.ws, fees.fees, fee_strategy, offer)
        main == PrincipalMoves(flat.ws, third.updated, offer)
    IN IF fee_strategy = NoStrategy
       THEN Panicked("fee_strategy", ws, reg)
       ELSE IF ~flat.ok
       THEN Returned(Err(flat.err), "genesis_fee", flat.ws, reg)
       ELSE IF ~fees.ok
       THEN Returned(Err(fees.err), "fees_lookup", flat.ws, reg)
       ELSE IF ~third.ok
       THEN Returned(Err(third.err), "third_party", flat.ws, reg)
       ELSE IF ~main.ok
       THEN Returned(Err(main.err), main.step, flat.ws, reg)
       ELSE Returned(Ok, "done", SaveWallets(flat.ws, main.updated), reg)

-----------------------------------------------------------------------------
(* Exchange: verify *)

\* crypto::verify / Message::verify_signature: a signature is the pair of
\* its signer and the payload it was made over
CryptoVerify(signature, payload, pub_key) ==
    signature.signer = pub_key /\ signature.over = payload

VerifySignature(tx, pub_key) == CryptoVerify(tx.signature, "message", pub_key)

\* variant: every decoded fee strategy is accepted
ExchangeVerifyAnyStrategy(tx, cfg_fuzzing) ==
    LET offer == tx.offer
        wallets_ok == offer.sender # offer.recipient
        fee_strategy == FeeStrategyTryFrom(offer.fee_strategy)
        recipient_ok == VerifySignature(tx, offer.recipient)
        sender_ok == CryptoVerify(tx.sender_signature, "offer", offer.sender)
    IN IF fee_strategy = NoStrategy THEN "panic"
       ELSE IF cfg_fuzzing
       THEN (IF wallets_ok THEN "true" ELSE "false")
       ELSE IF wallets_ok /\ recipient_ok /\ sender_ok
       THEN "true"
       ELSE "false"

\* Exchange::verify: "true", "false", or "panic" (the unwrap of try_from)
ExchangeVerify(tx, cfg_fuzzing) ==
    LET offer == tx.offer
        wallets_ok == offer.sender # offer.recipient
        fee_strategy == FeeStrategyTryFrom(offer.fee_strategy)
        fee_strategy_ok ==
            fee_strategy \in {"Recipient", "Sender", "RecipientAndSender"}
        recipient_ok == VerifySignature(tx, offer.recipient)
        sender_ok == CryptoVerify(tx.sender_signature, "offer", offer.sender)
    IN IF fee_strategy = NoStrategy THEN "panic"
       ELSE IF cfg_fuzzing
       THEN (IF wallets_ok /\ fee_strategy_ok THEN "true" ELSE "false")
       ELSE IF wallets_ok /\ fee_strategy_ok /\ recipient_ok /\ sender_ok
       THEN "true"
       ELSE "false"

-----------------------------------------------------------------------------
(* AddAssets: process *)

\* MetaAsset::to_info(creator) and AssetInfo::merge
MetaToInfo(meta, creator) ==
    [creator |-> creator, amount |-> meta.amount, tax |-> meta.tax]

MetaToBundle(meta, id) == AssetBundleNew(id, meta.amount)

AssetInfoMerge(info, other) ==
    IF info.creator # other.creator \/ info.tax # other.tax
    THEN [ok |-> FALSE, err |-> "InvalidAssetInfo", info |-> info]
    ELSE [ok |-> TRUE, err |-> "none",
          info |-> [info EXCEPT !.amount = @ + other.amount]]

RECURSIVE SumAmounts(_)
SumAmounts(metas) ==
    IF metas = <<>> THEN 0 ELSE Head(metas).amount + SumAmounts(Tail(metas))

\* Fees::new_add_assets: for_transaction() and for_assets_total()
FeesNewAddAssets(cfg, creator, metas) ==
    [for_transaction |-> cfg.add_asset,
     for_assets_total |-> cfg.per_add_asset * SumAmounts(metas)]
\* variant: the flat fee is capped by what the issuer's wallet holds
AddAssetsFeesCapped(cfg, tx) ==
    LET fees == FeesNewAddAssets(cfg, tx.pub_key, tx.meta_assets) IN
    IF wallets[tx.pub_key].balance < fees.for_transaction
    THEN [fees EXCEPT !.for_transaction = wallets[tx.pub_key].balance]
    ELSE fees

\* AddAssets::fees
AddAssetsFees(cfg, tx) == FeesNewAddAssets(cfg, tx.pub_key, tx.meta_assets)

\* variant: the info of the meta asset replaces the registered one
ExtractOneNoMerge(reg, tx, meta) ==
    LET id == AssetIdFromData(meta.data, meta.receiver)
        key == tx.pub_key
    IN [ok |-> TRUE, err |-> "none",
        item |-> [receiver |-> meta.receiver,
                  asset |-> MetaToBundle(meta, id),
                  info |-> MetaToInfo(meta, key)]]

\* variant: a failed merge keeps the registered info and goes on
ExtractOneKeepOnConflict(reg, tx, meta) ==
    LET id == AssetIdFromData(meta.data, meta.receiver)
        key == tx.pub_key
        merged == IF AssetKnown(reg, id)
                  THEN AssetInfoMerge(reg[id], MetaToInfo(meta, key))
                  ELSE [ok |-> TRUE, err |-> "none",
                        info |-> MetaToInfo(meta, key)]
    IN [ok |-> TRUE, err |-> "none",
        item |-> [receiver |-> meta.receiver,
                  asset |-> MetaToBundle(meta, id),
                  info |-> merged.info]]

\* the closure of extract_assets, for one meta asset, against the view
ExtractOne(reg, tx, meta) ==
    LET id == AssetIdFromData(meta.data, meta.receiver)
        key == tx.pub_key
        merged == IF AssetKnown(reg, id)
                  THEN AssetInfoMerge(reg[id], MetaToInfo(meta, key))
                  ELSE [ok |-> TRUE, err |-> "none",
                        info |-> MetaToInfo(meta, key)]
    IN [ok |-> merged.ok, err |-> merged.err,
        item |-> [receiver |-> meta.receiver,
                  asset |-> MetaToBundle(meta, id),
                  info |-> merged.info]]

RECURSIVE ExtractSeq(_, _, _)
ExtractSeq(reg, tx, metas) ==
    IF metas = <<>>
    THEN [ok |-> TRUE, err |-> "none", items |-> <<>>]
    ELSE LET one == ExtractOne(reg, tx, Head(metas))
             rest == ExtractSeq(reg, tx, Tail(metas))
         IN IF ~one.ok
            THEN [ok |-> FALSE, err |-> one.err, items |-> <<>>]
            ELSE IF ~rest.ok THEN rest
            ELSE [ok |-> TRUE, err |-> "none",
                  items |-> <<one.item>> \o rest.items]

\* AddAssets::extract_assets
extract_assets(reg, tx) == ExtractSeq(reg, tx, tx.meta_assets)

\* variant: the issuance fee is moved and stored before the flat fee
AddAssetsCollectFeesAssetsFirst(ws, tx, fees) ==
    LET genesis == WalletFetch(ws, GENESIS)
        creator == WalletFetch(ws, tx.pub_key)
        m1 == move_coins(creator, genesis, fees.for_assets_total)
        ws1 == WalletStore(WalletStore(ws, GENESIS, m1.to),
                           tx.pub_key, m1.from)
        m2 == move_coins(m1.from, m1.to, fees.for_transaction)
        ws2 == WalletStore(WalletStore(ws1, GENESIS, m2.to),
                           tx.pub_key, m2.from)
    IN IF ~m1.ok
       THEN [ok |-> FALSE, err |-> m1.err, step |-> "assets_fee", ws |-> ws]
       ELSE IF ~m2.ok
       THEN [ok |-> FALSE, err |-> m2.err, step |-> "transaction_fee",
             ws |-> ws1]
       ELSE [ok |-> TRUE, err |-> "none", step |-> "done", ws |-> ws2]

\* the two fee moves of process and the stores after each
AddAssetsCollectFees(ws, tx, fees) ==
    LET genesis_pub == GENESIS
        creator_pub == tx.pub_key
        genesis == WalletFetch(ws, genesis_pub)
        creator == WalletFetch(ws, creator_pub)
        m1 == move_coins(creator, genesis, fees.for_transaction)
        ws1 == WalletStore(WalletStore(ws, genesis_pub, m1.to),
                           creator_pub, m1.from)
        m2 == move_coins(m1.from, m1.to, fees.for_assets_total)
        ws2 == WalletStore(WalletStore(ws1, genesis_pub, m2.to),
                           creator_pub, m2.from)
    IN IF ~m1.ok
       THEN [ok |-> FALSE, err |-> m1.err, step |-> "transaction_fee",
             ws |-> ws]
       ELSE IF ~m2.ok
       THEN [ok |-> FALSE, err |-> m2.err, step |-> "assets_fee", ws |-> ws1]
       ELSE [ok |-> TRUE, err |-> "none", step |-> "done", ws |-> ws2]

\* the first loop of process: every info is stored under its id, in order
RECURSIVE StoreInfos(_, _)
StoreInfos(reg, items) ==
    IF items = <<>> THEN reg
    ELSE StoreInfos(AssetStore(reg, Head(items).asset.id, Head(items).info),
                    Tail(items))

\* recipients[key]: the bundles pushed for the receiver, in order
BundlesFor(items, key) ==
    LET idx == {i \in 1..Len(items) : items[i].receiver = key}
        F[i \in 0..Len(items)] ==
            IF i = 0 THEN <<>>
            ELSE IF i \in idx THEN Append(F[i - 1], items[i].asset)
            ELSE F[i - 1]
    IN F[Len(items)]

\* the second loop of process: every receiver is fetched, credited, stored
CreditRecipients(ws, items) ==
    LET recipients == {items[i].receiver : i \in 1..Len(items)} IN
    [k \in DOMAIN ws |->
        IF k \in recipients
        THEN push_assets(WalletFetch(ws, k), BundlesFor(items, k))
        ELSE ws[k]]

\* the items of the meta assets that precede the first failing one
RECURSIVE ExtractedBefore(_, _, _)
ExtractedBefore(reg, tx, metas) ==
    IF metas = <<>> \/ ~ExtractOne(reg, tx, Head(metas)).ok
    THEN <<>>
    ELSE <<ExtractOne(reg, tx, Head(metas)).item>>
            \o ExtractedBefore(reg, tx, Tail(metas))

\* variant: every info is stored as soon as its meta asset is merged, so a
\* later merge failure leaves the earlier entries in the registry
AddAssetsProcessStoreAsMerged(ws, reg, cfg, tx) ==
    LET fees == AddAssetsFees(cfg, tx)
        paid == AddAssetsCollectFees(ws, tx, fees)
        ex == extract_assets(reg, tx)
    IN IF ~paid.ok
       THEN Returned(Err(paid.err), paid.step, paid.ws, reg)
       ELSE IF ~ex.ok
       THEN Returned(Err(ex.err), "extract_assets", paid.ws,
                     StoreInfos(reg, ExtractedBefore(reg, tx, tx.meta_assets)))
       ELSE Returned(Ok, "done", CreditRecipients(paid.ws, ex.items),
                     StoreInfos(reg, ex.items))
\* variant: the receivers are credited on the wallets fetched before the
\* fees were stored
AddAssetsProcessCreditsStale(ws, reg, cfg, tx) ==
    LET fees == AddAssetsFees(cfg, tx)
        paid == AddAssetsCollectFees(ws, tx, fees)
        ex == extract_assets(reg, tx)
    IN IF ~paid.ok
       THEN Returned(Err(paid.err), paid.step, paid.ws, reg)
       ELSE IF ~ex.ok
       THEN Returned(Err(ex.err), "extract_assets", paid.ws, reg)
       ELSE Returned(Ok, "done",
                [k \in DOMAIN ws |->
                    IF \E i \in 1..Len(ex.items) : ex.items[i].receiver = k
                    THEN CreditRecipients(ws, ex.items)[k]
                    ELSE paid.ws[k]],
                StoreInfos(reg, ex.items))

\* AddAssets::process: the outcome and the fork after it
AddAssetsProcess(ws, reg, cfg, tx) ==
    LET fees == AddAssetsFees(cfg, tx)
        paid == AddAssetsCollectFees(ws, tx, fees)
        ex == extract_assets(reg, tx)
    IN IF ~paid.ok
       THEN Returned(Err(paid.err), paid.step, paid.ws, reg)
       ELSE IF ~ex.ok
       THEN Returned(Err(ex.err), "extract_assets", paid.ws, reg)
       ELSE Returned(Ok, "done", CreditRecipients(paid.ws, ex.items),
                     StoreInfos(reg, ex.items))

-----------------------------------------------------------------------------
(* The host's calls *)

Call(kind, tx, r) ==
    [kind |-> kind, tx |-> tx, panic |-> r.panic, result |-> r.result,
     step |-> r.step, wallets |-> wallets, assets |-> assets,
     statuses |-> statuses]

\* variant: the status is stored only when process returned Ok
ExecuteStatusOnSuccess(kind, tx, r) ==
    /\ calls < MaxTx
    /\ calls' = calls + 1
    /\ wallets' = r.wallets
    /\ assets' = r.assets
    /\ statuses' = IF r.panic \/ ~r.result.ok THEN statuses
                   ELSE StatusStore(statuses, Hash(tx), r.result)
    /\ last' = Call(kind, tx, r)
    /\ UNCHANGED <<config, fuzzing, node>>

\* execute: process, then the status under the transaction's hash; a panic
\* of process unwinds through execute and stores nothing
Execute(kind, tx, r) ==
    /\ calls < MaxTx
    /\ calls' = calls + 1
    /\ wallets' = r.wallets
    /\ assets' = r.assets
    /\ statuses' = IF r.panic THEN statuses
                   ELSE StatusStore(statuses, Hash(tx), r.result)
    /\ last' = Call(kind, tx, r)
    /\ UNCHANGED <<config, fuzzing, node>>

ExchangeExecute(tx) ==
    Execute("exchange", tx, ExchangeProcess(wallets, assets, config, tx))

AddAssetsExecute(tx) ==
    Execute("add_assets", tx, AddAssetsProcess(wallets, assets, config, tx))

\* ExchangeIntermediary::execute is unimplemented!()
ExchangeIntermediaryProcess(ws, reg, cfg, tx) ==
    Panicked("unimplemented", ws, reg)

ExchangeIntermediaryExecute(tx) ==
    Execute("exchange_intermediary", tx,
            ExchangeIntermediaryProcess(wallets, assets, config, tx))

\* verify reads the transaction only
ExchangeVerifyCall(tx) ==
    /\ calls < MaxTx
    /\ calls' = calls + 1
    /\ last' = [kind |-> "verify", tx |-> tx,
                panic |-> (ExchangeVerify(tx, fuzzing) = "panic"),
                result |-> ExchangeVerify(tx, fuzzing), step |-> "verify",
                wallets |-> wallets, assets |-> assets,
                statuses |-> statuses]
    /\ UNCHANGED <<wallets, assets, statuses, config, fuzzing, node>>

-----------------------------------------------------------------------------
(* Transactions handed to the handlers *)

Signed(signer, payload) == [signer |-> signer, over |-> payload]

\* an Exchange message: the offer, signed over its raw bytes by
\* offer_signer (sender_signature) and as a message by message_signer
ExchangeTx(sender, recipient, body, fee_strategy, offer_signer, message_signer) ==
    [offer |-> [sender |-> sender,
                sender_assets |-> body.sender_assets,
                sender_value |-> body.sender_value,
                recipient |-> recipient,
                recipient_assets |-> body.recipient_assets,
                fee_strategy |-> fee_strategy],
     seed |-> 0,
     sender_signature |-> Signed(offer_signer, "offer"),
     signature |-> Signed(message_signer, "message")]

AddAssetsTx(pub_key, metas) ==
    [pub_key |-> pub_key, meta_assets |-> metas, seed |-> 0,
     signature |-> Signed(pub_key, "message")]

ExchangeIntermediaryTx(intermediary, sender, recipient, body, fee_strategy) ==
    [offer |-> [intermediary |-> intermediary,
                sender |-> sender,
                sender_assets |-> body.sender_assets,
                sender_value |-> body.sender_value,
                recipient |-> recipient,
                recipient_assets |-> body.recipient_assets,
                fee_strategy |-> fee_strategy],
     seed |-> 0,
     sender_signature |-> Signed(sender, "offer"),
     intermediary_signature |-> Signed(intermediary, "offer"),
     signature |-> Signed(recipient, "message")]

AssetX == AssetIdFromData("x", "A")
AssetY == AssetIdFromData("x", "B")
AssetZ == AssetIdFromData("z", "A")

Body(value, sender_assets, recipient_assets) ==
    [sender_value |-> value, sender_assets |-> sender_assets,
     recipient_assets |-> recipient_assets]

FeeOnly == Body(0, <<>>, <<>>)
Swap == Body(0, <<AssetBundleNew(AssetX, 1)>>, <<AssetBundleNew(AssetY, 1)>>)
SwapAndPay ==
    Body(2, <<AssetBundleNew(AssetX, 1)>>, <<AssetBundleNew(AssetY, 1)>>)
Unknown == Body(0, <<AssetBundleNew(AssetZ, 1)>>, <<>>)

OfferBodies == {FeeOnly, Swap, SwapAndPay, Unknown}
StrategyBytes == {1, 2, 3, 4, 5}

\* (sender, recipient): two users, and the Treasury on either side
Pairs == {<<"A", "B">>, <<"A", "G">>, <<"G", "A">>}

\* correctly signed two-party exchanges between distinct wallets
ExchangeTxs ==
    {ExchangeTx(p[1], p[2], b, f, p[1], p[2]) :
        p \in Pairs, b \in OfferBodies, f \in StrategyBytes}

\* the exchanges the Exchange handler is run on next to its verify
FewExchangeTxs ==
    {ExchangeTx(p[1], p[2], b, f, p[1], p[2]) :
        p \in Pairs, b \in {FeeOnly, Swap}, f \in StrategyBytes}

\* what verify is asked about: also equal wallets and a wrong signer
VerifyTxs ==
    {ExchangeTx("A", r, FeeOnly, f, "A", m) :
        r \in {"A", "B"}, f \in StrategyBytes, m \in {"A", "B"}}

MetaAssets ==
    [data : {"x"}, receiver : {"B", "G"}, amount : {1}, tax : {1}]

MetaLists == {<<m>> : m \in MetaAssets} \cup (MetaAssets \X MetaAssets)

AddAssetsTxs == {AddAssetsTx(k, ms) : k \in Parties, ms \in MetaLists}

ExchangeIntermediaryTxs ==
    {ExchangeIntermediaryTx("G", "A", "B", FeeOnly, f) : f \in {4}}

-----------------------------------------------------------------------------
(* The fork the host starts from *)

ExchangeFees == {2, 3}

Configurations ==
    {[exchange |-> f, add_asset |-> 2, per_add_asset |-> 1] :
        f \in ExchangeFees}

InitWallets ==
    [k \in Keys |->
        CASE k = "G" -> WalletNew(3, EmptyMap)
          [] k = "A" -> WalletNew(4, [i \in {AssetX} |-> 2])
          [] k = "B" -> WalletNew(1, [i \in {AssetY} |-> 1])
          [] OTHER -> WalletNew(0, EmptyMap)]

InitAssets ==
    [i \in {AssetX, AssetY} |->
        IF i = AssetX
        THEN [creator |-> "C", amount |-> 2, tax |-> 2]
        ELSE [creator |-> "A", amount |-> 1, tax |-> 1]]

NoCall ==
    [kind |-> "none", tx |-> <<>>, panic |-> FALSE, result |-> Ok,
     step |-> "none", wallets |-> InitWallets, assets |-> InitAssets,
     statuses |-> EmptyMap]

InitFork ==
    /\ wallets = InitWallets
    /\ assets = InitAssets
    /\ statuses = EmptyMap
    /\ config \in Configurations
    /\ last = NoCall
    /\ calls = 0
    /\ node = NodeIdle({})

Init == InitFork /\ fuzzing = FALSE

InitExchange == InitFork /\ fuzzing \in BOOLEAN

\* the ledger: the executes of all three handlers
Next ==
    \/ \E tx \in ExchangeTxs : ExchangeExecute(tx)
    \/ \E tx \in AddAssetsTxs : AddAssetsExecute(tx)
    \/ \E tx \in ExchangeIntermediaryTxs : ExchangeIntermediaryExecute(tx)

Spec == Init /\ [][Next]_vars

\* the Exchange handler: verify and execute
NextExchange ==
    \/ \E tx \in VerifyTxs : ExchangeVerifyCall(tx)
    \/ \E tx \in FewExchangeTxs : ExchangeExecute(tx)

SpecExchange == InitExchange /\ [][NextExchange]_vars

-----------------------------------------------------------------------------
(* What the last call did to the fork *)

Executed(kind) == last.kind = kind /\ ~last.panic

Failed(kind) == Executed(kind) /\ ~last.result.ok

Succeeded(kind) == Executed(kind) /\ last.result.ok

WalletsUnchanged == wallets = last.wallets

RegistryUnchanged == assets = last.assets

HoldingsUnchanged ==
    \A k \in Keys : wallets[k].assets = last.wallets[k].assets

\* the status index differs from the one before by the entry of the hash
OnlyStatusOf(tx) ==
    /\ DOMAIN statuses = DOMAIN last.statuses \cup {Hash(tx)}
    /\ \A h \in DOMAIN last.statuses :
        h # Hash(tx) => statuses[h] = last.statuses[h]

LastStrategy == FeeStrategyTryFrom(last.tx.offer.fee_strategy)

\* who pays the blockchain fee of an exchange, and how much of it
FlatFeePayers(offer) ==
    CASE FeeStrategyTryFrom(offer.fee_strategy) = "Recipient" ->
            {offer.recipient}
      [] FeeStrategyTryFrom(offer.fee_strategy) = "Sender" -> {offer.sender}
      [] FeeStrategyTryFrom(offer.fee_strategy) = "RecipientAndSender" ->
            {offer.sender, offer.recipient}
      [] OTHER -> {}

FlatFeePart(offer, genesis_fee) ==
    IF FeeStrategyTryFrom(offer.fee_strategy) = "RecipientAndSender"
    THEN genesis_fee \div 2
    ELSE genesis_fee

-----------------------------------------------------------------------------
(* C1 *)

-----------------------------------------------------------------------------
(* C2 *)

LastFees == AddAssetsFees(config, last.tx)

\* the fees an AddAssets had collected when it returned at its last step
FeesCollected ==
    CASE last.step = "transaction_fee" -> 0
      [] last.step = "assets_fee" -> LastFees.for_transaction
      [] OTHER -> LastFees.for_transaction + LastFees.for_assets_total

-----------------------------------------------------------------------------
(* C3, C4 *)

RECURSIVE TotalCoins(_, _)
TotalCoins(ws, S) ==
    IF S = {} THEN 0
    ELSE LET k == CHOOSE x \in S : TRUE
         IN ws[k].balance + TotalCoins(ws, S \ {k})

RECURSIVE TotalHeld(_, _, _)
TotalHeld(ws, id, S) ==
    IF S = {} THEN 0
    ELSE LET k == CHOOSE x \in S : TRUE
         IN Holding(ws[k], id) + TotalHeld(ws, id, S \ {k})

RegistryTotal(reg, id) == IF AssetKnown(reg, id) THEN reg[id].amount ELSE 0

IdsInUse ==
    DOMAIN assets \cup UNION {DOMAIN wallets[k].assets : k \in Keys}

\* C3: after any sequence of AddAssets and Exchange executes the sum of all
\* wallet balances, the Treasury's included, is the sum before the sequence.
C3_CoinConservation ==
    TotalCoins(wallets, Keys) = TotalCoins(InitWallets, Keys)

\* C4: for every asset identifier the total of its registry entry (0 when
\* there is none) is the sum of the amounts of it held over all wallets.
C4_AssetConservation ==
    \A id \in IdsInUse :
        RegistryTotal(assets, id) = TotalHeld(wallets, id, Keys)

-----------------------------------------------------------------------------
(* C5, C6 *)

\* C5: an execute of AddAssets or Exchange whose processing returned stores
\* one status, under the hash of the transaction: Ok if and only if
\* processing returned Ok, and else the error processing returned; every
\* other status record is as before.
C5_StatusRecorded ==
    /\ Executed("exchange") =>
        /\ OnlyStatusOf(last.tx)
        /\ statuses[Hash(last.tx)] =
            ExchangeProcess(last.wallets, last.assets, config, last.tx).result
        /\ statuses[Hash(last.tx)].ok <=> last.step = "done"
    /\ Executed("add_assets") =>
        /\ OnlyStatusOf(last.tx)
        /\ statuses[Hash(last.tx)] =
            AddAssetsProcess(last.wallets, last.assets, config, last.tx).result
        /\ statuses[Hash(last.tx)].ok <=> last.step = "done"

\* a failed AddAssets has its error on record next to the success of the
\* Exchange executed before it
C5_Witness ==
    /\ Failed("add_assets")
    /\ statuses[Hash(last.tx)] = Err("InvalidAssetInfo")
    /\ \E h \in DOMAIN statuses : h # Hash(last.tx) /\ statuses[h] = Ok

\* C6: every execute (AddAssets, Exchange, ExchangeIntermediary) returns
\* without a panic and leaves a status record under the transaction's hash.
C6_NoCrash ==
    last.kind \in {"exchange", "add_assets", "exchange_intermediary"} =>
        /\ ~last.panic
        /\ Hash(last.tx) \in DOMAIN statuses

-----------------------------------------------------------------------------
(* C7, C8 *)

ValidTwoParty == {"Recipient", "Sender", "RecipientAndSender"}

FlatFeeFailed ==
    /\ last.result = Err("InsufficientFunds")
    /\ WalletsUnchanged
    /\ RegistryUnchanged

\* C7 as stated: when a designated payer's balance is lower than the flat
\* fee, the transaction fails with InsufficientFunds and changes nothing.
C7_FlatFeeFirst ==
    /\ (/\ Executed("exchange")
        /\ LastStrategy \in ValidTwoParty
        /\ \E k \in FlatFeePayers(last.tx.offer) :
            last.wallets[k].balance < config.exchange) => FlatFeeFailed
    /\ (/\ Executed("add_assets")
        /\ last.wallets[last.tx.pub_key].balance < LastFees.for_transaction)
            => FlatFeeFailed

\* C7 amended: when a designated payer's balance is lower than the part of
\* the flat fee it has to pay (the whole fee for AddAssets and under Sender
\* and Recipient, floor(fee / 2) for each party under the split strategy),
\* the transaction fails with InsufficientFunds in the flat fee step and no
\* wallet, holding or registry entry is changed.
C7_FlatFeePartFirst ==
    /\ (/\ Executed("exchange")
        /\ LastStrategy \in ValidTwoParty
        /\ \E k \in FlatFeePayers(last.tx.offer) :
            last.wallets[k].balance
                < FlatFeePart(last.tx.offer, config.exchange))
            => (FlatFeeFailed /\ last.step = "genesis_fee")
    /\ (/\ Executed("add_assets")
        /\ last.wallets[last.tx.pub_key].balance < LastFees.for_transaction)
            => (FlatFeeFailed /\ last.step = "transaction_fee")

\* the recipient pays, cannot afford the flat fee, and holds what it offers
C7_Witness ==
    /\ Failed("exchange")
    /\ last.step = "genesis_fee"
    /\ LastStrategy = "Recipient"
    /\ last.tx.offer.recipient_assets # <<>>
    /\ \A i \in 1..Len(last.tx.offer.recipient_assets) :
        Holding(last.wallets[last.tx.offer.recipient],
                last.tx.offer.recipient_assets[i].id)
            >= last.tx.offer.recipient_assets[i].amount
    /\ last.wallets[last.tx.offer.recipient].balance < config.exchange

\* C8: a successful split-fee Exchange (here one that moves nothing else,
\* between two wallets other than the Treasury) raises the Treasury by the
\* flat fee f, lowers the recipient by floor(f / 2) and the sender by
\* f - floor(f / 2).
C8_SplitFee ==
    (/\ Succeeded("exchange")
     /\ LastStrategy = "RecipientAndSender"
     /\ GENESIS \notin {last.tx.offer.sender, last.tx.offer.recipient}
     /\ last.tx.offer.sender_value = 0
     /\ last.tx.offer.sender_assets = <<>>
     /\ last.tx.offer.recipient_assets = <<>>) =>
        LET f == config.exchange
            s == last.tx.offer.sender
            r == last.tx.offer.recipient
        IN /\ wallets[GENESIS].balance = last.wallets[GENESIS].balance + f
           /\ wallets[r].balance = last.wallets[r].balance - (f \div 2)
           /\ wallets[s].balance = last.wallets[s].balance - (f - (f \div 2))

-----------------------------------------------------------------------------
(* C9, C10 *)

\* C9: verify returns false for every Exchange whose fee_strategy byte is
\* no FeeStrategy value.
C9_InvalidStrategyFailsVerify ==
    (last.kind = "verify" /\ LastStrategy = NoStrategy) =>
        last.result = "false"

\* C10: verify returns false for an Exchange with the Intermediary
\* strategy; executed anyway, its processing returns InvalidTransaction
\* with no wallet or registry entry written, and the status under its hash
\* is Fail(InvalidTransaction).
C10_IntermediaryRejected ==
    /\ (last.kind = "verify" /\ LastStrategy = "Intermediary") =>
        last.result = "false"
    /\ (last.kind = "exchange" /\ LastStrategy = "Intermediary") =>
        /\ ~last.panic
        /\ last.result = Err("InvalidTransaction")
        /\ WalletsUnchanged
        /\ RegistryUnchanged
        /\ OnlyStatusOf(last.tx)
        /\ statuses[Hash(last.tx)] = Err("InvalidTransaction")

\* an Exchange with the Intermediary strategy was executed on a fork that an
\* earlier Exchange had changed
C10_Witness ==
    /\ last.kind = "exchange"
    /\ LastStrategy = "Intermediary"
    /\ last.wallets # InitWallets
    /\ statuses[Hash(last.tx)] = Err("InvalidTransaction")

-----------------------------------------------------------------------------
(* The AddAssets handler on a fork of two funded issuers *)

IssueMetas ==
    {[data |-> "x", receiver |-> "A", amount |-> 1, tax |-> 1],
     [data |-> "x", receiver |-> "A", amount |-> 2, tax |-> 2],
     [data |-> "x", receiver |-> "B", amount |-> 1, tax |-> 1],
     [data |-> "z", receiver |-> "A", amount |-> 2, tax |-> 1],
     [data |-> "z", receiver |-> "B", amount |-> 1, tax |-> 1]}

IssueLists == {<<m>> : m \in IssueMetas} \cup (IssueMetas \X IssueMetas)

IssueTxs == {AddAssetsTx(k, ms) : k \in {"A", "B"}, ms \in IssueLists}

IssueWallets ==
    [k \in Keys |->
        CASE k = "A" -> WalletNew(9, [i \in {AssetX} |-> 2])
          [] k = "B" -> WalletNew(9, EmptyMap)
          [] OTHER -> WalletNew(0, EmptyMap)]

IssueAssets == [i \in {AssetX} |-> [creator |-> "A", amount |-> 2, tax |-> 1]]

InitAddAssets ==
    /\ wallets = IssueWallets
    /\ assets = IssueAssets
    /\ statuses = EmptyMap
    /\ config \in Configurations
    /\ last = [NoCall EXCEPT !.wallets = IssueWallets, !.assets = IssueAssets]
    /\ calls = 0
    /\ node = NodeIdle({})
    /\ fuzzing = FALSE

NextAddAssets == \E tx \in IssueTxs : AddAssetsExecute(tx)

SpecAddAssets == InitAddAssets /\ [][NextAddAssets]_vars

-----------------------------------------------------------------------------
(* C11, C12 *)

IsAddAssets(tx) == "meta_assets" \in DOMAIN tx

CanPayFees ==
    last.wallets[last.tx.pub_key].balance
        >= LastFees.for_transaction + LastFees.for_assets_total

\* C11: when a creator has issued data d, amount a, to wallet W and then
\* issues the same d with the same fee schedule, amount b, to another wallet
\* W2 (and can pay the fees), the second AddAssets succeeds into the entry
\* of the first: one identifier, already registered and held by W, whose
\* total grows by b and of which W2 receives b.
C11_ReissuanceMerges ==
    \A t1 \in DOMAIN last.statuses :
        (/\ Executed("add_assets")
         /\ IsAddAssets(t1)
         /\ last.statuses[t1].ok
         /\ t1.pub_key = last.tx.pub_key
         /\ Len(t1.meta_assets) = 1
         /\ Len(last.tx.meta_assets) = 1
         /\ t1.meta_assets[1].data = last.tx.meta_assets[1].data
         /\ t1.meta_assets[1].tax = last.tx.meta_assets[1].tax
         /\ t1.meta_assets[1].receiver # last.tx.meta_assets[1].receiver
         /\ CanPayFees) =>
            LET W == t1.meta_assets[1].receiver
                W2 == last.tx.meta_assets[1].receiver
                a == t1.meta_assets[1].amount
                b == last.tx.meta_assets[1].amount
            IN /\ last.result.ok
               /\ \E id \in DOMAIN last.assets :
                    /\ last.assets[id].creator = last.tx.pub_key
                    /\ Holding(last.wallets[W], id) >= a
                    /\ assets[id].amount = last.assets[id].amount + b
                    /\ Holding(wallets[W2], id)
                        = Holding(last.wallets[W2], id) + b

\* C12: the identifier of an issuance depends on the creator and the data:
\* an issuer that is the creator of no registered asset (and can pay the
\* fees) issues into a fresh entry, whatever other creators have registered
\* for the same data and receiver: the AddAssets succeeds and every entry
\* registered before is as it was.
C12_IdentifierByCreator ==
    (/\ Executed("add_assets")
     /\ Len(last.tx.meta_assets) = 1
     /\ \A id \in DOMAIN last.assets :
            last.assets[id].creator # last.tx.pub_key
     /\ CanPayFees) =>
        /\ last.result.ok
        /\ \A id \in DOMAIN last.assets : assets[id] = last.assets[id]

-----------------------------------------------------------------------------
(* C13, C14 *)

LastMetaId(i) ==
    AssetIdFromData(last.tx.meta_assets[i].data,
                    last.tx.meta_assets[i].receiver)

\* meta asset i of the last AddAssets goes to the issuer's own wallet, and
\* meta asset j too; i is registered before the call, j is not
OwnExistingAndNew(i, j) ==
    /\ Len(last.tx.meta_assets) = 2
    /\ {i, j} = {1, 2}
    /\ last.tx.meta_assets[i].receiver = last.tx.pub_key
    /\ last.tx.meta_assets[j].receiver = last.tx.pub_key
    /\ LastMetaId(i) \in DOMAIN last.assets
    /\ LastMetaId(j) \notin DOMAIN last.assets

\* C13: a successful AddAssets of amount n of a registered asset (total t)
\* and amount m of an unregistered one, both to the issuer's own wallet,
\* leaves the registered entry with total t + n and its creator and tax,
\* creates the entry of the new asset, raises the wallet's holdings by n and
\* by m, and lowers the issuer's balance by the fee of the transaction.
C13_AddAssetsEffect ==
    \A i, j \in {1, 2} :
        (Succeeded("add_assets") /\ OwnExistingAndNew(i, j)) =>
            LET issuer == last.tx.pub_key
                old == LastMetaId(i)
                new == LastMetaId(j)
                n == last.tx.meta_assets[i].amount
                m == last.tx.meta_assets[j].amount
            IN /\ assets[old] =
                    [last.assets[old] EXCEPT !.amount = @ + n]
               /\ new \in DOMAIN assets
               /\ assets[new] = MetaToInfo(last.tx.meta_assets[j], issuer)
               /\ \A id \in DOMAIN last.assets \ {old} :
                    assets[id] = last.assets[id]
               /\ Holding(wallets[issuer], old)
                    = Holding(last.wallets[issuer], old) + n
               /\ Holding(wallets[issuer], new) = m
               /\ wallets[issuer].balance =
                    last.wallets[issuer].balance
                        - (LastFees.for_transaction
                            + LastFees.for_assets_total)

\* the issuer held some of the registered asset and received both amounts
C13_Witness ==
    /\ Succeeded("add_assets")
    /\ \E i, j \in {1, 2} :
        /\ OwnExistingAndNew(i, j)
        /\ Holding(last.wallets[last.tx.pub_key], LastMetaId(i)) > 0
        /\ Holding(wallets[last.tx.pub_key], LastMetaId(j)) > 0

\* meta asset i of the last AddAssets maps to an entry registered with
\* another creator or another tax
Conflicts(i) ==
    /\ LastMetaId(i) \in DOMAIN last.assets
    /\ \/ last.assets[LastMetaId(i)].creator # last.tx.pub_key
       \/ last.assets[LastMetaId(i)].tax # last.tx.meta_assets[i].tax

\* C14: an AddAssets with a meta asset that maps to an identifier
\* registered with a different creator or a different fee schedule fails
\* (in the merge, when the fees could be paid); every registry entry keeps
\* its creator, fee schedule and total, and no wallet holding changes.
C14_MergeConflictFails ==
    (/\ Executed("add_assets")
     /\ \E i \in 1..Len(last.tx.meta_assets) : Conflicts(i)) =>
        /\ ~last.result.ok
        /\ CanPayFees => last.step = "extract_assets"
        /\ RegistryUnchanged
        /\ HoldingsUnchanged
        /\ statuses[Hash(last.tx)] = last.result

\* the issuer is the creator of the entry and states another tax, next to
\* a meta asset that merges without conflict
C14_Witness ==
    /\ Failed("add_assets")
    /\ last.step = "extract_assets"
    /\ Len(last.tx.meta_assets) = 2
    /\ ~Conflicts(1)
    /\ Conflicts(2)
    /\ last.assets[LastMetaId(2)].creator = last.tx.pub_key

-----------------------------------------------------------------------------
(* The Exchange handler on a fork of two funded parties *)

SwapBodies ==
    {Body(v, sa, ra) :
        v \in {0, 2},
        sa \in {<<>>, <<AssetBundleNew(AssetX, 1)>>,
                <<AssetBundleNew(AssetX, 2)>>},
        ra \in {<<>>, <<AssetBundleNew(AssetY, 1)>>}}

SwapTxs ==
    {ExchangeTx(p[1], p[2], b, f, p[1], p[2]) :
        p \in {<<"A", "B">>, <<"B", "A">>}, b \in SwapBodies, f \in {1, 2, 3}}

SwapWallets ==
    [k \in Keys |->
        CASE k = "A" -> WalletNew(9, [i \in {AssetX} |-> 2])
          [] k = "B" -> WalletNew(9, [i \in {AssetY} |-> 1])
          [] OTHER -> WalletNew(0, EmptyMap)]

SwapAssets ==
    [i \in {AssetX, AssetY} |->
        IF i = AssetX
        THEN [creator |-> "C", amount |-> 2, tax |-> 1]
        ELSE [creator |-> "C", amount |-> 1, tax |-> 1]]

InitSwap ==
    /\ wallets = SwapWallets
    /\ assets = SwapAssets
    /\ statuses = EmptyMap
    /\ config \in Configurations
    /\ last = [NoCall EXCEPT !.wallets = SwapWallets, !.assets = SwapAssets]
    /\ calls = 0
    /\ node = NodeIdle({})
    /\ fuzzing = FALSE

NextSwap == \E tx \in SwapTxs : ExchangeExecute(tx)

SpecSwap == InitSwap /\ [][NextSwap]_vars

-----------------------------------------------------------------------------
(* C15 *)

\* the amount of asset id in a list of bundles
RECURSIVE AmountOf(_, _)
AmountOf(bundles, id) ==
    IF bundles = <<>> THEN 0
    ELSE (IF Head(bundles).id = id THEN Head(bundles).amount ELSE 0)
            + AmountOf(Tail(bundles), id)

NamedIds(offer) ==
    {offer.sender_assets[i].id : i \in 1..Len(offer.sender_assets)}
        \cup {offer.recipient_assets[i].id :
                i \in 1..Len(offer.recipient_assets)}

\* wallet k holds n of id afterwards: an entry of n, or no entry when n = 0
HoldsExactly(k, id, n) ==
    IF n = 0 THEN id \notin DOMAIN wallets[k].assets
    ELSE id \in DOMAIN wallets[k].assets /\ wallets[k].assets[id] = n

\* wallet k receives no fee of the offer: it is neither the Treasury nor the
\* creator of an asset the offer names
ReceivesNoFee(k, offer) ==
    /\ k # GENESIS
    /\ \A id \in NamedIds(offer) : last.assets[id].creator # k

\* C15: a successful Exchange moves every sender bundle to the recipient
\* and every recipient bundle to the sender, removing a holding that reaches
\* zero and creating one not owned before; holdings of assets the offer does
\* not name and of other wallets are unchanged; sender_value coins move from
\* the sender to the recipient: a party that pays no fee and receives none
\* changes by exactly sender_value, and under the split strategy, where
\* both pay the same, the recipient gains 2 * sender_value on the sender.
C15_ExchangeEffect ==
    Succeeded("exchange") =>
        LET offer == last.tx.offer
            s == offer.sender
            r == offer.recipient
            v == offer.sender_value
        IN /\ \A id \in IdsInUse \cup NamedIds(offer) :
                /\ HoldsExactly(s, id,
                        Holding(last.wallets[s], id)
                            - AmountOf(offer.sender_assets, id)
                            + AmountOf(offer.recipient_assets, id))
                /\ HoldsExactly(r, id,
                        Holding(last.wallets[r], id)
                            - AmountOf(offer.recipient_assets, id)
                            + AmountOf(offer.sender_assets, id))
           /\ \A k \in Keys \ {s, r} :
                wallets[k].assets = last.wallets[k].assets
           /\ \A k \in {s, r} :
                \A id \in DOMAIN last.wallets[k].assets \ NamedIds(offer) :
                    HoldsExactly(k, id, last.wallets[k].assets[id])
           /\ (LastStrategy = "Recipient" /\ ReceivesNoFee(s, offer)) =>
                wallets[s].balance = last.wallets[s].balance - v
           /\ (LastStrategy = "Sender" /\ ReceivesNoFee(r, offer)) =>
                wallets[r].balance = last.wallets[r].balance + v
           /\ (/\ LastStrategy = "RecipientAndSender"
               /\ ReceivesNoFee(s, offer)
               /\ ReceivesNoFee(r, offer)) =>
                wallets[r].balance - wallets[s].balance =
                    last.wallets[r].balance - last.wallets[s].balance + 2 * v

\* coins and bundles moved both ways: the sender gave all of one asset and
\* the recipient had none of it before
C15_Witness ==
    /\ Succeeded("exchange")
    /\ last.tx.offer.sender_value > 0
    /\ last.tx.offer.recipient_assets # <<>>
    /\ \E i \in 1..Len(last.tx.offer.sender_assets) :
        LET b == last.tx.offer.sender_assets[i] IN
        /\ Holding(last.wallets[last.tx.offer.sender], b.id) = b.amount
        /\ b.id \notin DOMAIN wallets[last.tx.offer.sender].assets
        /\ b.id \notin DOMAIN last.wallets[last.tx.offer.recipient].assets
        /\ Holding(wallets[last.tx.offer.recipient], b.id) = b.amount

-----------------------------------------------------------------------------
(* DeleteAssets, Transfer, Trade and CreateWallet *)

\* the flat fee of each kind of transaction, paid to the Treasury
LedgerFees == [delete_assets |-> 1, transfer |-> 1, trade |-> 1]

\* the balance CreateWallet seeds a wallet with
INIT_BALANCE == 5

\* a payment between two wallets of the fork's working copy
LedgerPay(ws, from, to, amount) ==
    IF ws[from].balance < amount
    THEN [ok |-> FALSE, err |-> "InsufficientFunds", ws |-> ws]
    ELSE IF from = to
    THEN [ok |-> TRUE, err |-> "none", ws |-> ws]
    ELSE LET m == move_coins(ws[from], ws[to], amount)
         IN [ok |-> TRUE, err |-> "none",
             ws |-> [ws EXCEPT ![from] = m.from, ![to] = m.to]]

\* the tax of every bundle, paid by the payer to the creator of its asset
RECURSIVE LedgerTaxes(_, _, _, _)
LedgerTaxes(acc, reg, payer, bundles) ==
    IF ~acc.ok \/ bundles = <<>> THEN acc
    ELSE LET b == Head(bundles) IN
         IF ~AssetKnown(reg, b.id)
         THEN [ok |-> FALSE, err |-> "AssetNotFound", ws |-> acc.ws]
         ELSE LedgerTaxes(
                LedgerPay(acc.ws, payer, reg[b.id].creator,
                          reg[b.id].tax * b.amount),
                reg, payer, Tail(bundles))

LedgerMoveCoins(acc, from, to, amount) ==
    IF ~acc.ok THEN acc ELSE LedgerPay(acc.ws, from, to, amount)

LedgerMoveAssets(acc, from, to, bundles) ==
    IF ~acc.ok THEN acc
    ELSE LET m == move_assets(acc.ws[from], acc.ws[to], bundles)
         IN IF ~m.ok THEN [ok |-> FALSE, err |-> m.err, ws |-> acc.ws]
            ELSE [ok |-> TRUE, err |-> "none",
                  ws |-> [acc.ws EXCEPT ![from] = m.from, ![to] = m.to]]

\* the registry without amount of the asset: no entry is kept at zero
RegistrySub(reg, id, amount) ==
    IF reg[id].amount = amount
    THEN [x \in DOMAIN reg \ {id} |-> reg[x]]
    ELSE [reg EXCEPT ![id].amount = @ - amount]

RECURSIVE DeleteSeq(_, _, _)
DeleteSeq(wallet, reg, bundles) ==
    IF bundles = <<>>
    THEN [ok |-> TRUE, err |-> "none", wallet |-> wallet, reg |-> reg]
    ELSE LET b == Head(bundles) IN
         IF b.id \notin DOMAIN wallet.assets \/ ~AssetKnown(reg, b.id)
         THEN [ok |-> FALSE, err |-> "AssetNotFound",
               wallet |-> wallet, reg |-> reg]
         ELSE IF wallet.assets[b.id] < b.amount \/ reg[b.id].amount < b.amount
         THEN [ok |-> FALSE, err |-> "InsufficientAssets",
               wallet |-> wallet, reg |-> reg]
         ELSE DeleteSeq(
                [wallet EXCEPT !.assets = SubHolding(@, b.id, b.amount)],
                RegistrySub(reg, b.id, b.amount), Tail(bundles))

\* variant: the retirements before the failing one are written
DeleteAssetsProcessPartial(ws, reg, cfg, tx) ==
    LET paid == LedgerPay(ws, tx.pub_key, GENESIS, LedgerFees.delete_assets)
        d == DeleteSeq(paid.ws[tx.pub_key], reg, tx.assets)
    IN IF ~paid.ok THEN Returned(Err(paid.err), "fee", ws, reg)
       ELSE IF ~d.ok
       THEN Returned(Err(d.err), "assets",
                     WalletStore(ws, tx.pub_key,
                        [d.wallet EXCEPT !.balance = ws[tx.pub_key].balance]),
                     d.reg)
       ELSE Returned(Ok, "done", WalletStore(paid.ws, tx.pub_key, d.wallet),
                     d.reg)

\* variant: the registry total is not lowered
DeleteAssetsProcessWalletOnly(ws, reg, cfg, tx) ==
    LET paid == LedgerPay(ws, tx.pub_key, GENESIS, LedgerFees.delete_assets)
        d == DeleteSeq(paid.ws[tx.pub_key], reg, tx.assets)
    IN IF ~paid.ok THEN Returned(Err(paid.err), "fee", ws, reg)
       ELSE IF ~d.ok THEN Returned(Err(d.err), "assets", ws, reg)
       ELSE Returned(Ok, "done", WalletStore(paid.ws, tx.pub_key, d.wallet),
                     reg)

\* DeleteAssets: the fee, then every requested amount off the caller's
\* wallet and off the registry; nothing is written unless all succeed
DeleteAssetsProcess(ws, reg, cfg, tx) ==
    LET paid == LedgerPay(ws, tx.pub_key, GENESIS, LedgerFees.delete_assets)
        d == DeleteSeq(paid.ws[tx.pub_key], reg, tx.assets)
    IN IF ~paid.ok THEN Returned(Err(paid.err), "fee", ws, reg)
       ELSE IF ~d.ok THEN Returned(Err(d.err), "assets", ws, reg)
       ELSE Returned(Ok, "done", WalletStore(paid.ws, tx.pub_key, d.wallet),
                     d.reg)

\* variant: the flat fee is credited to the recipient
TransferProcessFeeToRecipient(ws, reg, cfg, tx) ==
    LET fee == LedgerPay(ws, tx.from, tx.to, LedgerFees.transfer)
        tax == LedgerTaxes(fee, reg, tx.from, tx.assets)
        coins == LedgerMoveCoins(tax, tx.from, tx.to, tx.amount)
        moved == LedgerMoveAssets(coins, tx.from, tx.to, tx.assets)
    IN IF ~moved.ok THEN Returned(Err(moved.err), "failed", ws, reg)
       ELSE Returned(Ok, "done", moved.ws, reg)

\* Transfer: the flat fee to the Treasury, the taxes to the creators, then
\* the coins and the bundles to the recipient
TransferProcess(ws, reg, cfg, tx) ==
    LET fee == LedgerPay(ws, tx.from, GENESIS, LedgerFees.transfer)
        tax == LedgerTaxes(fee, reg, tx.from, tx.assets)
        coins == LedgerMoveCoins(tax, tx.from, tx.to, tx.amount)
        moved == LedgerMoveAssets(coins, tx.from, tx.to, tx.assets)
    IN IF ~moved.ok THEN Returned(Err(moved.err), "failed", ws, reg)
       ELSE Returned(Ok, "done", moved.ws, reg)

\* variant: the buyer pays the fee
TradeProcessBuyerPays(ws, reg, cfg, tx) ==
    LET fee == LedgerPay(ws, tx.buyer, GENESIS, LedgerFees.trade)
        tax == LedgerTaxes(fee, reg, tx.buyer, tx.assets)
        coins == LedgerMoveCoins(tax, tx.buyer, tx.seller, tx.price)
        moved == LedgerMoveAssets(coins, tx.seller, tx.buyer, tx.assets)
    IN IF ~moved.ok THEN Returned(Err(moved.err), "failed", ws, reg)
       ELSE Returned(Ok, "done", moved.ws, reg)

\* Trade: the seller pays the fee and the taxes, the buyer pays the price
\* to the seller, the bundles go to the buyer
TradeProcess(ws, reg, cfg, tx) ==
    LET fee == LedgerPay(ws, tx.seller, GENESIS, LedgerFees.trade)
        tax == LedgerTaxes(fee, reg, tx.seller, tx.assets)
        coins == LedgerMoveCoins(tax, tx.buyer, tx.seller, tx.price)
        moved == LedgerMoveAssets(coins, tx.seller, tx.buyer, tx.assets)
    IN IF ~moved.ok THEN Returned(Err(moved.err), "failed", ws, reg)
       ELSE Returned(Ok, "done", moved.ws, reg)

\* variant: the initial balance is added to the wallet that exists
CreateWalletProcessAdditive(ws, reg, cfg, tx) ==
    Returned(Ok, "done",
             WalletStore(ws, tx.pub_key,
                [ws[tx.pub_key] EXCEPT !.balance = @ + INIT_BALANCE]),
             reg)

\* CreateWallet: the wallet of the key is the initial one
CreateWalletProcess(ws, reg, cfg, tx) ==
    Returned(Ok, "done",
             WalletStore(ws, tx.pub_key, WalletNew(INIT_BALANCE, EmptyMap)),
             reg)

DeleteAssetsExecute(tx) ==
    Execute("delete_assets", tx, DeleteAssetsProcess(wallets, assets, config, tx))

TransferExecute(tx) ==
    Execute("transfer", tx, TransferProcess(wallets, assets, config, tx))

TradeExecute(tx) ==
    Execute("trade", tx, TradeProcess(wallets, assets, config, tx))

CreateWalletExecute(tx) ==
    Execute("create_wallet", tx, CreateWalletProcess(wallets, assets, config, tx))

DeleteAssetsTx(pub_key, bundles) ==
    [pub_key |-> pub_key, assets |-> bundles, seed |-> 0,
     signature |-> Signed(pub_key, "message")]

TransferTx(from, to, amount, bundles) ==
    [from |-> from, to |-> to, amount |-> amount, assets |-> bundles,
     seed |-> 0, signature |-> Signed(from, "message")]

TradeTx(seller, buyer, bundles, price) ==
    [seller |-> seller, buyer |-> buyer, assets |-> bundles, price |-> price,
     seed |-> 0, signature |-> Signed(seller, "message")]

CreateWalletTx(pub_key) ==
    [pub_key |-> pub_key, signature |-> Signed(pub_key, "message")]

AssetP == AssetIdFromData("p", "A")
AssetQ == AssetIdFromData("q", "C")
AssetR == AssetIdFromData("r", "A")

DeleteLists ==
    {<<AssetBundleNew(AssetP, 1)>>,
     <<AssetBundleNew(AssetP, 2), AssetBundleNew(AssetQ, 1)>>,
     <<AssetBundleNew(AssetP, 3)>>,
     <<AssetBundleNew(AssetQ, 1)>>,
     <<AssetBundleNew(AssetQ, 1), AssetBundleNew(AssetP, 3)>>,
     <<AssetBundleNew(AssetR, 1)>>}

DeleteAssetsTxs == {DeleteAssetsTx(k, l) : k \in {"A", "B"}, l \in DeleteLists}

MovedLists ==
    {<<>>, <<AssetBundleNew(AssetP, 1)>>, <<AssetBundleNew(AssetP, 2)>>,
     <<AssetBundleNew(AssetQ, 1)>>}

TransferTxs ==
    {TransferTx(p[1], p[2], c, l) :
        p \in {<<"A", "B">>, <<"B", "A">>}, c \in {0, 2}, l \in MovedLists}

TradeTxs ==
    {TradeTx(p[1], p[2], l, price) :
        p \in {<<"A", "B">>, <<"B", "A">>},
        l \in {<<AssetBundleNew(AssetP, 2)>>, <<AssetBundleNew(AssetQ, 1)>>},
        price \in {1, 4}}

CreateWalletTxs == {CreateWalletTx(k) : k \in {"A", "C"}}

LedgerWallets ==
    [k \in Keys |->
        CASE k = "A" -> WalletNew(6, (AssetP :> 2) @@ (AssetQ :> 1))
          [] k = "B" -> WalletNew(3, (AssetQ :> 1))
          [] OTHER -> WalletNew(0, EmptyMap)]

LedgerAssets ==
    (AssetP :> [creator |-> "A", amount |-> 2, tax |-> 0])
        @@ (AssetQ :> [creator |-> "C", amount |-> 2, tax |-> 1])

InitLedger ==
    /\ wallets = LedgerWallets
    /\ assets = LedgerAssets
    /\ statuses = EmptyMap
    /\ config \in Configurations
    /\ last = [NoCall EXCEPT !.wallets = LedgerWallets,
                             !.assets = LedgerAssets]
    /\ calls = 0
    /\ node = NodeIdle({})
    /\ fuzzing = FALSE

NextLedger ==
    \/ \E tx \in DeleteAssetsTxs : DeleteAssetsExecute(tx)
    \/ \E tx \in TransferTxs : TransferExecute(tx)
    \/ \E tx \in TradeTxs : TradeExecute(tx)
    \/ \E tx \in CreateWalletTxs : CreateWalletExecute(tx)

SpecLedger == InitLedger /\ [][NextLedger]_vars

-----------------------------------------------------------------------------
(* C16, C17 *)

\* C16: a successful DeleteAssets lowers, for every requested asset, the
\* caller's holding and the registry total by the requested amount; a
\* holding that reaches zero has no entry in the wallet, a registry entry
\* whose total reaches zero is removed, entries that stay positive remain
\* with their creator and tax; other wallets' holdings are unchanged.
C16_DeleteAssetsEffect ==
    Succeeded("delete_assets") =>
        LET caller == last.tx.pub_key IN
        /\ \A id \in DOMAIN last.assets \cup DOMAIN last.wallets[caller].assets :
            LET n == AmountOf(last.tx.assets, id) IN
            /\ HoldsExactly(caller, id, Holding(last.wallets[caller], id) - n)
            /\ RegistryTotal(assets, id) = RegistryTotal(last.assets, id) - n
            /\ id \in DOMAIN assets <=> RegistryTotal(last.assets, id) > n
            /\ id \in DOMAIN assets =>
                assets[id] = [last.assets[id] EXCEPT !.amount = @ - n]
        /\ DOMAIN assets \subseteq DOMAIN last.assets
        /\ \A k \in Keys \ {caller} :
            wallets[k].assets = last.wallets[k].assets

\* one asset left the network, another left the wallet and stays registered
C16_Witness ==
    /\ Succeeded("delete_assets")
    /\ \E id \in DOMAIN last.assets : id \notin DOMAIN assets
    /\ \E id \in DOMAIN last.wallets[last.tx.pub_key].assets :
        /\ id \notin DOMAIN wallets[last.tx.pub_key].assets
        /\ id \in DOMAIN assets

\* a requested amount exceeds what the caller holds, or the asset is not
\* held by the caller
OverRetires ==
    \E i \in 1..Len(last.tx.assets) :
        Holding(last.wallets[last.tx.pub_key], last.tx.assets[i].id)
            < last.tx.assets[i].amount

\* C17: a DeleteAssets with a requested amount above the caller's holding,
\* or of an asset the caller does not hold, fails; the status is a failure
\* and every wallet holding and every registry entry is as before, those of
\* the other assets requested in the same transaction included.
C17_DeleteAssetsFailure ==
    (Executed("delete_assets") /\ OverRetires) =>
        /\ ~last.result.ok
        /\ ~statuses[Hash(last.tx)].ok
        /\ HoldingsUnchanged
        /\ RegistryUnchanged

\* the first requested amount could be retired, the second exceeds the
\* holding
C17_Witness ==
    /\ Failed("delete_assets")
    /\ last.result = Err("InsufficientAssets")
    /\ Len(last.tx.assets) = 2
    /\ Holding(last.wallets[last.tx.pub_key], last.tx.assets[1].id)
        >= last.tx.assets[1].amount
    /\ Holding(last.wallets[last.tx.pub_key], last.tx.assets[2].id) > 0
    /\ Holding(last.wallets[last.tx.pub_key], last.tx.assets[2].id)
        < last.tx.assets[2].amount

-----------------------------------------------------------------------------
(* C18, C19, C20 *)

ZeroTax(bundles) ==
    \A i \in 1..Len(bundles) :
        /\ bundles[i].id \in DOMAIN last.assets
        /\ last.assets[bundles[i].id].tax = 0

\* the bundles left the wallet from and reached the wallet to
BundlesMoved(from, to, bundles) ==
    /\ \A id \in IdsInUse \cup DOMAIN last.assets :
        /\ HoldsExactly(from, id,
                Holding(last.wallets[from], id) - AmountOf(bundles, id))
        /\ HoldsExactly(to, id,
                Holding(last.wallets[to], id) + AmountOf(bundles, id))
    /\ \A k \in Keys \ {from, to} :
        wallets[k].assets = last.wallets[k].assets

\* C18: a successful Transfer of c coins and bundles of zero tax, with flat
\* fee f, lowers the sender's balance by f + c, raises the recipient's by c
\* and the Treasury's by f, takes the transferred amounts from the sender
\* (no entry left at zero, the remainder kept) and adds them to the
\* recipient.
C18_TransferEffect ==
    (Succeeded("transfer") /\ ZeroTax(last.tx.assets)) =>
        LET s == last.tx.from
            r == last.tx.to
            c == last.tx.amount
            f == LedgerFees.transfer
        IN /\ wallets[s].balance = last.wallets[s].balance - (f + c)
           /\ wallets[r].balance = last.wallets[r].balance + c
           /\ wallets[GENESIS].balance = last.wallets[GENESIS].balance + f
           /\ BundlesMoved(s, r, last.tx.assets)
           /\ RegistryUnchanged

\* coins and a part of a holding were transferred
C18_Witness ==
    /\ Succeeded("transfer")
    /\ last.tx.amount > 0
    /\ last.tx.assets # <<>>
    /\ ZeroTax(last.tx.assets)
    /\ Holding(wallets[last.tx.from], last.tx.assets[1].id) > 0
    /\ Holding(wallets[last.tx.to], last.tx.assets[1].id)
        = last.tx.assets[1].amount

\* what the seller of the last trade owes: the flat fee and the taxes of
\* the creators other than itself
RECURSIVE TaxOwed(_, _)
TaxOwed(payer, bundles) ==
    IF bundles = <<>> THEN 0
    ELSE LET info == last.assets[Head(bundles).id] IN
         (IF info.creator = payer THEN 0
          ELSE info.tax * Head(bundles).amount)
            + TaxOwed(payer, Tail(bundles))

\* C19: a successful trade of bundles at price p moves the bundles from the
\* seller's wallet to the buyer's (no seller entry left at zero), lowers the
\* buyer's balance by p and changes the seller's by + p - fee: the seller
\* pays the fee of the transaction.
C19_TradeEffect ==
    Succeeded("trade") =>
        LET seller == last.tx.seller
            buyer == last.tx.buyer
            p == last.tx.price
            fee == LedgerFees.trade + TaxOwed(seller, last.tx.assets)
        IN /\ BundlesMoved(seller, buyer, last.tx.assets)
           /\ ReceivesNoFee(buyer, [sender_assets |-> last.tx.assets,
                                    recipient_assets |-> <<>>]) =>
                wallets[buyer].balance = last.wallets[buyer].balance - p
           /\ wallets[seller].balance =
                last.wallets[seller].balance + p - fee
           /\ RegistryUnchanged

\* the seller sold all it held of an asset and ended with more coins than
\* before
C19_Witness ==
    /\ Succeeded("trade")
    /\ last.tx.assets[1].id \notin DOMAIN wallets[last.tx.seller].assets
    /\ Holding(wallets[last.tx.buyer], last.tx.assets[1].id)
        >= last.tx.assets[1].amount
    /\ wallets[last.tx.seller].balance > last.wallets[last.tx.seller].balance

-----------------------------------------------------------------------------
(* The fees of a transaction, as reported before it is executed *)

\* variant: the sender is taxed for the assets it created itself
TransferFeesTaxingOwn(reg, cfg, tx) ==
    LET third == FeesOfBundles(reg, tx.assets, EmptyMap)
    IN IF ~third.ok THEN Err(third.err)
       ELSE [ok |-> TRUE, err |-> "none",
             fees |-> (tx.from :>
                LedgerFees.transfer + SumOver(third.fees, DOMAIN third.fees))]

\* the fee table of a Transfer: the sender owes the flat fee and the tax of
\* every creator other than itself; an unknown asset gives the error alone
TransferFees(reg, cfg, tx) ==
    LET third == FeesOfBundles(reg, tx.assets, EmptyMap)
    IN IF ~third.ok THEN Err(third.err)
       ELSE [ok |-> TRUE, err |-> "none",
             fees |-> (tx.from :>
                LedgerFees.transfer
                    + SumOver(third.fees, DOMAIN third.fees \ {tx.from}))]

\* the fees request: reads the registry, writes nothing
TransferFeesCall(tx) ==
    /\ calls < MaxTx
    /\ calls' = calls + 1
    /\ last' = [kind |-> "transfer_fees", tx |-> tx, panic |-> FALSE,
                result |-> TransferFees(assets, config, tx),
                step |-> "fees", wallets |-> wallets, assets |-> assets,
                statuses |-> statuses]
    /\ UNCHANGED <<wallets, assets, statuses, config, fuzzing, node>>

FeeLists ==
    {<<AssetBundleNew(AssetP, 1)>>,
     <<AssetBundleNew(AssetQ, 1)>>,
     <<AssetBundleNew(AssetP, 2), AssetBundleNew(AssetQ, 1)>>,
     <<AssetBundleNew(AssetQ, 1), AssetBundleNew(AssetR, 1)>>,
     <<AssetBundleNew(AssetR, 1)>>}

FeeTransferTxs ==
    {TransferTx(p[1], p[2], 0, l) :
        p \in {<<"A", "B">>, <<"B", "A">>}, l \in FeeLists}

FeeBodies ==
    {Body(0, <<AssetBundleNew(AssetP, 1)>>, <<AssetBundleNew(AssetQ, 1)>>),
     Body(0, <<AssetBundleNew(AssetR, 1)>>, <<>>),
     Body(0, <<AssetBundleNew(AssetP, 1)>>, <<AssetBundleNew(AssetR, 1)>>)}

FeeExchangeTxs ==
    {ExchangeTx(p[1], p[2], b, f, p[1], p[2]) :
        p \in {<<"A", "B">>, <<"B", "A">>}, b \in FeeBodies,
        f \in {1, 2, 3}}

\* what is retired between two requests: all of P, or one Q
FeeDeleteTxs ==
    {DeleteAssetsTx("A", l) :
        l \in {<<AssetBundleNew(AssetP, 2)>>, <<AssetBundleNew(AssetQ, 1)>>}}

\* both assets are taxed; A created P
FeeAssets ==
    (AssetP :> [creator |-> "A", amount |-> 2, tax |-> 2])
        @@ (AssetQ :> [creator |-> "C", amount |-> 2, tax |-> 1])

InitFees ==
    /\ wallets = LedgerWallets
    /\ assets = FeeAssets
    /\ statuses = EmptyMap
    /\ config \in Configurations
    /\ last = [NoCall EXCEPT !.wallets = LedgerWallets, !.assets = FeeAssets]
    /\ calls = 0
    /\ node = NodeIdle({})
    /\ fuzzing = FALSE

NextFees ==
    \/ \E tx \in FeeTransferTxs : TransferFeesCall(tx)
    \/ \E tx \in FeeExchangeTxs : ExchangeExecute(tx)
    \/ \E tx \in FeeDeleteTxs : DeleteAssetsExecute(tx)

SpecFees == InitFees /\ [][NextFees]_vars

-----------------------------------------------------------------------------
(* C21, C22 *)

FeesReported == last.kind = "transfer_fees" /\ last.result.ok

NamesUnknown(bundles) ==
    \E i \in 1..Len(bundles) : bundles[i].id \notin DOMAIN last.assets

\* C21: the fee table reported for a Transfer has one entry, the sender's:
\* the flat transfer fee plus amount x tax of every bundle whose asset was
\* created by another key; a sender that created every transferred asset
\* owes the flat fee alone.
C21_TransferFee ==
    FeesReported =>
        LET s == last.tx.from
            bundles == last.tx.assets
        IN /\ DOMAIN last.result.fees = {s}
           /\ last.result.fees[s] = LedgerFees.transfer + TaxOwed(s, bundles)
           /\ (\A i \in 1..Len(bundles) :
                    last.assets[bundles[i].id].creator = s) =>
                last.result.fees[s] = LedgerFees.transfer

\* the sender transfers a taxed asset of its own and a taxed asset of
\* another creator, and owes the flat fee and the tax of the other asset
C21_Witness ==
    /\ FeesReported
    /\ \E i, j \in 1..Len(last.tx.assets) :
        /\ last.assets[last.tx.assets[i].id].creator = last.tx.from
        /\ last.assets[last.tx.assets[i].id].tax > 0
        /\ last.assets[last.tx.assets[j].id].creator # last.tx.from
        /\ last.assets[last.tx.assets[j].id].tax > 0
    /\ last.result.fees[last.tx.from] > LedgerFees.transfer

\* the flat fee of the exchange is paid by keys that can afford it
FlatFeeAffordable ==
    /\ LastStrategy \in ValidTwoParty
    /\ \A k \in FlatFeePayers(last.tx.offer) :
        last.wallets[k].balance >= FlatFeePart(last.tx.offer, config.exchange)

\* C22: the fees of a Transfer that names an asset with no registry entry
\* are the error AssetNotFound and no fee table; an Exchange that names
\* one fails with AssetNotFound when its third party fees are computed,
\* and no third party fee is paid.
C22_UnknownAssetFees ==
    /\ (last.kind = "transfer_fees" /\ NamesUnknown(last.tx.assets)) =>
            last.result = Err("AssetNotFound")
    /\ (/\ Executed("exchange")
        /\ FlatFeeAffordable
        /\ NamesUnknown(last.tx.offer.sender_assets
                            \o last.tx.offer.recipient_assets)) =>
            /\ last.result = Err("AssetNotFound")
            /\ HoldingsUnchanged
            /\ \A k \in Keys \ (FlatFeePayers(last.tx.offer) \cup {GENESIS}) :
                wallets[k] = last.wallets[k]

\* an exchange whose flat fee was paid failed on an unknown asset, and the
\* fees request that followed named an unknown asset after a known one
C22_Witness ==
    /\ \E h \in DOMAIN statuses :
        /\ statuses[h] = Err("AssetNotFound")
        /\ wallets[GENESIS].balance > LedgerWallets[GENESIS].balance
    /\ last.kind = "transfer_fees"
    /\ Len(last.tx.assets) = 2
    /\ ~NamesUnknown(<<last.tx.assets[1]>>)
    /\ NamesUnknown(<<last.tx.assets[2]>>)
    /\ last.result = Err("AssetNotFound")


-----------------------------------------------------------------------------
(* The handlers' loops over their hash maps, in the order of the iteration *)

\* the orders in which a hash map with the keys S can be iterated
Orders(S) ==
    {o \in [1..Cardinality(S) -> S] :
        \A i, j \in 1..Cardinality(S) : o[i] = o[j] => i = j}

\* the second loop of AddAssets::process, receiver by receiver
CreditRecipientsInOrder(ws, items, order) ==
    LET F[i \in 0..Cardinality(DOMAIN order)] ==
            IF i = 0 THEN ws
            ELSE LET key == order[i]
                     recipient == push_assets(WalletFetch(F[i - 1], key),
                                              BundlesFor(items, key))
                 IN WalletStore(F[i - 1], key, recipient)
    IN F[Cardinality(DOMAIN order)]

\* variant: the loop returns after its first store
SaveWalletsInOrderFirstOnly(ws, updated_wallets, order) ==
    IF Cardinality(DOMAIN order) = 0 THEN ws
    ELSE WalletStore(ws, order[1], updated_wallets[order[1]])

\* Save changes to the database, wallet by wallet
SaveWalletsInOrder(ws, updated_wallets, order) ==
    LET F[i \in 0..Cardinality(DOMAIN order)] ==
            IF i = 0 THEN ws
            ELSE WalletStore(F[i - 1], order[i], updated_wallets[order[i]])
    IN F[Cardinality(DOMAIN order)]

\* the keys of recipients when AddAssets::process reaches its second loop
AddAssetsRecipients(ws, reg, cfg, tx) ==
    LET ex == extract_assets(reg, tx) IN
    IF AddAssetsProcess(ws, reg, cfg, tx).step = "done"
    THEN {ex.items[i].receiver : i \in 1..Len(ex.items)}
    ELSE {}

\* updated_wallets when Exchange::process reaches its save loop
ExchangeUpdatedWallets(ws, reg, cfg, tx) ==
    LET offer == tx.offer
        fee_strategy == FeeStrategyTryFrom(offer.fee_strategy)
        flat == CollectGenesisFee(ws, fee_strategy, offer,
                                  ExchangeGenesisFee(cfg))
        fees == ThirdPartyFeesNewExchange(reg,
                    offer.sender_assets \o offer.recipient_assets)
        third == CollectThirdParty(flat.ws, fees.fees, fee_strategy, offer)
    IN IF ExchangeProcess(ws, reg, cfg, tx).step = "done"
       THEN [ws |-> flat.ws,
             updated |-> PrincipalMoves(flat.ws, third.updated, offer).updated]
       ELSE [ws |-> ws, updated |-> EmptyMap]

\* AddAssets::process with its second loop run in the given order
AddAssetsProcessInOrder(ws, reg, cfg, tx, order) ==
    LET r == AddAssetsProcess(ws, reg, cfg, tx)
        paid == AddAssetsCollectFees(ws, tx, AddAssetsFees(cfg, tx))
    IN IF r.step # "done" THEN r
       ELSE [r EXCEPT !.wallets =
                CreditRecipientsInOrder(paid.ws, extract_assets(reg, tx).items,
                                        order)]

\* Exchange::process with its save loop run in the given order
ExchangeProcessInOrder(ws, reg, cfg, tx, order) ==
    LET r == ExchangeProcess(ws, reg, cfg, tx)
        u == ExchangeUpdatedWallets(ws, reg, cfg, tx)
    IN IF r.step # "done" THEN r
       ELSE [r EXCEPT !.wallets = SaveWalletsInOrder(u.ws, u.updated, order)]

\* execute on a node whose hash map iterates in the given order
ExecuteInOrder(kind, tx, r, order) ==
    /\ calls < MaxTx
    /\ calls' = calls + 1
    /\ wallets' = r.wallets
    /\ assets' = r.assets
    /\ statuses' = IF r.panic THEN statuses
                   ELSE StatusStore(statuses, Hash(tx), r.result)
    /\ last' = Call(kind, tx, r) @@ [order |-> order]
    /\ UNCHANGED <<config, fuzzing, node>>

AddAssetsExecuteInOrder(tx) ==
    \E order \in Orders(AddAssetsRecipients(wallets, assets, config, tx)) :
        ExecuteInOrder("add_assets", tx,
            AddAssetsProcessInOrder(wallets, assets, config, tx, order), order)

ExchangeExecuteInOrder(tx) ==
    \E order \in Orders(DOMAIN ExchangeUpdatedWallets(wallets, assets, config,
                                                      tx).updated) :
        ExecuteInOrder("exchange", tx,
            ExchangeProcessInOrder(wallets, assets, config, tx, order), order)

ReplayMetas ==
    {[data |-> "z", receiver |-> "A", amount |-> 1, tax |-> 1],
     [data |-> "z", receiver |-> "B", amount |-> 1, tax |-> 1],
     [data |-> "w", receiver |-> "B", amount |-> 2, tax |-> 1]}

ReplayIssueTxs ==
    {AddAssetsTx("A", ms) :
        ms \in {<<m>> : m \in ReplayMetas}
                \cup {<<m, n>> : m \in ReplayMetas,
                               n \in {x \in ReplayMetas : x.data = "z"}}}

ReplaySwapTxs ==
    {ExchangeTx("A", "B", b, f, "A", "B") :
        b \in {Body(0, <<>>, <<>>),
               Body(2, <<AssetBundleNew(AssetX, 1)>>,
                       <<AssetBundleNew(AssetY, 1)>>)},
        f \in {2, 3}}

NextReplay ==
    \/ \E tx \in ReplaySwapTxs : ExchangeExecuteInOrder(tx)
    \/ \E tx \in ReplayIssueTxs : AddAssetsExecuteInOrder(tx)

SpecReplay == InitSwap /\ [][NextReplay]_vars

-----------------------------------------------------------------------------
(* C23 *)

\* the fork after the last call is the one the handler's process gives for
\* the fork before it and the transaction
ReplaysAs(r) ==
    /\ wallets = r.wallets
    /\ assets = r.assets
    /\ statuses = StatusStore(last.statuses, Hash(last.tx), r.result)

\* C23: the wallets, the registry and the status after an execute of an
\* Exchange or an AddAssets are a function of the fork before it and the
\* transaction: whatever the order in which the node iterates recipients or
\* updated_wallets, two nodes starting from one state end in one state.
C23_Deterministic ==
    /\ Executed("exchange") =>
        ReplaysAs(ExchangeProcess(last.wallets, last.assets, config, last.tx))
    /\ Executed("add_assets") =>
        ReplaysAs(AddAssetsProcess(last.wallets, last.assets, config, last.tx))

\* an AddAssets credited two receivers, the second key first, after an
\* Exchange that saved the wallets of both parties and of a creator
C23_Witness ==
    /\ Succeeded("add_assets")
    /\ Cardinality(DOMAIN last.order) = 2
    /\ last.order[1] = "B"
    /\ \E h \in DOMAIN statuses :
        /\ "offer" \in DOMAIN h
        /\ statuses[h].ok
        /\ h.offer.sender_assets # <<>>
        /\ wallets["C"].balance > 0


-----------------------------------------------------------------------------
(* The transfer primitives, called on copies of two wallets of the fork *)

\* a handler's call of move_coins on the copies it fetched
MoveCoinsCall(from, to, amount) ==
    /\ calls < MaxTx
    /\ calls' = calls + 1
    /\ last' = [kind |-> "move_coins",
                tx |-> [from |-> from, to |-> to, amount |-> amount],
                panic |-> FALSE,
                result |-> move_coins(WalletFetch(wallets, from),
                                      WalletFetch(wallets, to), amount),
                step |-> "move_coins", wallets |-> wallets,
                assets |-> assets, statuses |-> statuses]
    /\ UNCHANGED <<wallets, assets, statuses, config, fuzzing, node>>

\* a handler's call of move_assets on the copies it fetched
MoveAssetsCall(from, to, bundles) ==
    /\ calls < MaxTx
    /\ calls' = calls + 1
    /\ last' = [kind |-> "move_assets",
                tx |-> [from |-> from, to |-> to, assets |-> bundles],
                panic |-> FALSE,
                result |-> move_assets(WalletFetch(wallets, from),
                                       WalletFetch(wallets, to), bundles),
                step |-> "move_assets", wallets |-> wallets,
                assets |-> assets, statuses |-> statuses]
    /\ UNCHANGED <<wallets, assets, statuses, config, fuzzing, node>>

CoinAmounts == 0..7

PrimitivePairs == {p \in {"A", "B", "C"} \X {"A", "B", "C"} : p[1] # p[2]}

PrimitiveLists ==
    {<<>>,
     <<AssetBundleNew(AssetP, 2)>>,
     <<AssetBundleNew(AssetQ, 2)>>,
     <<AssetBundleNew(AssetQ, 1), AssetBundleNew(AssetP, 3)>>,
     <<AssetBundleNew(AssetP, 1), AssetBundleNew(AssetQ, 1),
       AssetBundleNew(AssetR, 1)>>,
     <<AssetBundleNew(AssetP, 1), AssetBundleNew(AssetQ, 1)>>}

NextPrimitives ==
    \/ \E p \in PrimitivePairs, amount \in CoinAmounts :
        MoveCoinsCall(p[1], p[2], amount)
    \/ \E p \in PrimitivePairs, l \in PrimitiveLists :
        MoveAssetsCall(p[1], p[2], l)
    \/ \E tx \in TransferTxs : TransferExecute(tx)

SpecPrimitives == InitLedger /\ [][NextPrimitives]_vars

-----------------------------------------------------------------------------
(* C24, C25 *)

\* C24: move_coins(from, to, amount) fails with InsufficientFunds and
\* returns both copies as they were when from.balance < amount; otherwise
\* it lowers from.balance and raises to.balance by amount, keeping their
\* sum and their holdings; amount 0 succeeds and changes neither copy; the
\* wallets in the store are not written.
C24_MoveCoins ==
    last.kind = "move_coins" =>
        LET from == last.wallets[last.tx.from]
            to == last.wallets[last.tx.to]
            amount == last.tx.amount
            r == last.result
        IN /\ from.balance < amount =>
                /\ ~r.ok
                /\ r.err = "InsufficientFunds"
                /\ r.from = from
                /\ r.to = to
           /\ from.balance >= amount =>
                /\ r.ok
                /\ r.from.balance = from.balance - amount
                /\ r.to.balance = to.balance + amount
                /\ r.from.balance + r.to.balance = from.balance + to.balance
                /\ r.from.assets = from.assets
                /\ r.to.assets = to.assets
           /\ amount = 0 => (r.ok /\ r.from = from /\ r.to = to)
           /\ WalletsUnchanged

\* a wallet with no coins was asked for 0 coins: the call succeeded
C24_Witness ==
    /\ last.kind = "move_coins"
    /\ last.tx.amount = 0
    /\ last.wallets[last.tx.from].balance = 0
    /\ last.result.ok

\* from lacks the requested amount of the i-th bundle
Lacks(from, bundles, i) == Holding(from, bundles[i].id) < bundles[i].amount

\* C25: when from holds less than the requested amount of any bundle of
\* the list, move_assets fails with InsufficientAssets and returns both
\* copies as they were, the bundles before the failing one included.
C25_MoveAssetsAllOrNothing ==
    (/\ last.kind = "move_assets"
     /\ \E i \in 1..Len(last.tx.assets) :
            Lacks(last.wallets[last.tx.from], last.tx.assets, i)) =>
        /\ ~last.result.ok
        /\ last.result.err = "InsufficientAssets"
        /\ last.result.from = last.wallets[last.tx.from]
        /\ last.result.to = last.wallets[last.tx.to]
        /\ WalletsUnchanged

\* the call failed on its third bundle; from held the first two
C25_Witness ==
    /\ last.kind = "move_assets"
    /\ Len(last.tx.assets) = 3
    /\ ~Lacks(last.wallets[last.tx.from], last.tx.assets, 1)
    /\ ~Lacks(last.wallets[last.tx.from], last.tx.assets, 2)
    /\ Lacks(last.wallets[last.tx.from], last.tx.assets, 3)
    /\ ~last.result.ok


-----------------------------------------------------------------------------
(* C27 *)

\* what the flat fee payers other than the Treasury pay to it
SharesOfOthers(offer, genesis_fee) ==
    Cardinality(FlatFeePayers(offer) \ {GENESIS})
        * FlatFeePart(offer, genesis_fee)

\* C27: when the Treasury is the issuer of a successful AddAssets, or a
\* party of a successful Exchange that names no asset, its stored balance
\* reflects every debit and credit of the transaction: the fee it pays to
\* itself leaves the balance as it was, the fee shares of the other payers
\* and the coins it receives are added, the coins it sends are taken.
C27_ReadModifyWrite ==
    /\ (Succeeded("add_assets") /\ last.tx.pub_key = GENESIS) =>
        wallets[GENESIS].balance = last.wallets[GENESIS].balance
    /\ (/\ Succeeded("exchange")
        /\ GENESIS \in {last.tx.offer.sender, last.tx.offer.recipient}
        /\ last.tx.offer.sender_assets = <<>>
        /\ last.tx.offer.recipient_assets = <<>>) =>
        wallets[GENESIS].balance =
            last.wallets[GENESIS].balance
                + SharesOfOthers(last.tx.offer, config.exchange)
                + (IF last.tx.offer.recipient = GENESIS
                   THEN last.tx.offer.sender_value ELSE 0)
                - (IF last.tx.offer.sender = GENESIS
                   THEN last.tx.offer.sender_value ELSE 0)


-----------------------------------------------------------------------------
(* C30 *)

\* C30: when two meta assets of a successful AddAssets map to one
\* identifier, with amounts a and b, the registry total of the identifier
\* rises by a + b, as the holdings of it over all wallets do.
C30_DuplicateIdentifiers ==
    (/\ Succeeded("add_assets")
     /\ Len(last.tx.meta_assets) = 2
     /\ LastMetaId(1) = LastMetaId(2)) =>
        LET id == LastMetaId(1)
            sum == last.tx.meta_assets[1].amount
                    + last.tx.meta_assets[2].amount
        IN /\ TotalHeld(wallets, id, Keys)
                = TotalHeld(last.wallets, id, Keys) + sum
           /\ RegistryTotal(assets, id)
                = RegistryTotal(last.assets, id) + sum


-----------------------------------------------------------------------------
(* The host: verify, and execute of what verify accepted *)

\* MetaAsset::verify: the amount to issue is positive
MetaAssetVerify(meta) == meta.amount > 0

\* AddAssets::verify
AddAssetsVerify(tx, cfg_fuzzing) ==
    IF cfg_fuzzing THEN "true"
    ELSE IF ~VerifySignature(tx, tx.pub_key) THEN "false"
    ELSE IF \E i \in 1..Len(tx.meta_assets) :
                ~MetaAssetVerify(tx.meta_assets[i])
    THEN "false"
    ELSE "true"

AddAssetsVerifyCall(tx) ==
    /\ calls < MaxTx
    /\ calls' = calls + 1
    /\ last' = [kind |-> "verify_add_assets", tx |-> tx, panic |-> FALSE,
                result |-> AddAssetsVerify(tx, fuzzing), step |-> "verify",
                wallets |-> wallets, assets |-> assets,
                statuses |-> statuses]
    /\ UNCHANGED <<wallets, assets, statuses, config, fuzzing, node>>

\* the host hands to execute only what verify accepted
ExchangeSubmit(tx) ==
    /\ ExchangeVerify(tx, fuzzing) = "true"
    /\ ExchangeExecute(tx)

AddAssetsSubmit(tx) ==
    /\ AddAssetsVerify(tx, fuzzing) = "true"
    /\ AddAssetsExecute(tx)

\* a swap, a payment, and an offer of a bundle of amount 0
HostBodies ==
    {Body(0, <<AssetBundleNew(AssetX, 1)>>, <<AssetBundleNew(AssetY, 1)>>),
     Body(1, <<>>, <<>>),
     Body(0, <<AssetBundleNew(AssetX, 0)>>, <<>>)}

\* exchanges of A with B or with itself, each payload signed by either
HostExchangeTxs ==
    {ExchangeTx("A", r, b, 2, os, ms) :
        r \in {"A", "B"}, b \in HostBodies,
        os \in {"A", "B"}, ms \in {"A", "B"}}

HostMetaLists ==
    {<<[data |-> "z", receiver |-> "B", amount |-> 1, tax |-> 1]>>,
     <<[data |-> "z", receiver |-> "B", amount |-> 0, tax |-> 1]>>,
     <<[data |-> "z", receiver |-> "B", amount |-> 1, tax |-> 1],
       [data |-> "w", receiver |-> "A", amount |-> 0, tax |-> 1]>>}

\* issuances of A, signed by A or by B
HostAddAssetsTxs ==
    {[AddAssetsTx("A", ms) EXCEPT !.signature = Signed(k, "message")] :
        ms \in HostMetaLists, k \in {"A", "B"}}

NextHost ==
    \/ \E tx \in HostExchangeTxs : ExchangeVerifyCall(tx)
    \/ \E tx \in HostAddAssetsTxs : AddAssetsVerifyCall(tx)
    \/ \E tx \in HostExchangeTxs : ExchangeSubmit(tx)
    \/ \E tx \in HostAddAssetsTxs : AddAssetsSubmit(tx)

SpecHost == InitSwap /\ [][NextHost]_vars

-----------------------------------------------------------------------------
(* C26 *)

\* C26: in every stored wallet the balance is not negative and no asset
\* entry has amount zero.
C26_WalletInvariant ==
    \A k \in Keys :
        /\ wallets[k].balance >= 0
        /\ \A id \in DOMAIN wallets[k].assets : wallets[k].assets[id] > 0

-----------------------------------------------------------------------------
(* C28, C29 *)

\* C28: Exchange.verify returns true only if the sender differs from the
\* recipient, the signature over the full transaction is the sender's and
\* the signature over the offer payload is the recipient's.
C28_ExchangeVerification ==
    (last.kind = "verify" /\ last.result = "true") =>
        /\ last.tx.offer.sender # last.tx.offer.recipient
        /\ CryptoVerify(last.tx.signature, "message", last.tx.offer.sender)
        /\ CryptoVerify(last.tx.sender_signature, "offer",
                        last.tx.offer.recipient)

HasZeroAmount(items) == \E i \in 1..Len(items) : items[i].amount = 0

\* C29: verify of an Exchange with a bundle of amount 0, and of an
\* AddAssets with a meta asset of amount 0, does not return true, and no
\* such transaction is executed.
C29_PositiveAmounts ==
    /\ (/\ last.kind \in {"verify", "exchange"}
        /\ HasZeroAmount(last.tx.offer.sender_assets
                            \o last.tx.offer.recipient_assets)) =>
            (last.kind = "verify" /\ last.result # "true")
    /\ (/\ last.kind \in {"verify_add_assets", "add_assets"}
        /\ HasZeroAmount(last.tx.meta_assets)) =>
            (last.kind = "verify_add_assets" /\ last.result # "true")


-----------------------------------------------------------------------------
(* Exchanges between a rich, a poor and a penniless wallet *)

PartyBodies ==
    {Body(0, <<>>, <<>>),
     Body(2, <<AssetBundleNew(AssetX, 1)>>, <<AssetBundleNew(AssetY, 1)>>),
     Body(0, <<AssetBundleNew(AssetX, 1)>>, <<AssetBundleNew(AssetX, 1)>>),
     Body(0, <<AssetBundleNew(AssetY, 1)>>, <<AssetBundleNew(AssetY, 1)>>),
     Body(0, <<AssetBundleNew(AssetX, 1)>>, <<>>)}

PartyTxs ==
    {ExchangeTx(p[1], p[2], b, f, p[1], p[2]) :
        p \in {<<"A", "B">>, <<"B", "A">>, <<"A", "C">>, <<"C", "A">>},
        b \in PartyBodies, f \in {1, 2, 3}}

\* B can pay a flat fee and little more; C, the creator, has no coins
PartyWallets ==
    [k \in Keys |->
        CASE k = "A" -> WalletNew(9, [i \in {AssetX} |-> 2])
          [] k = "B" -> WalletNew(3, [i \in {AssetY} |-> 1])
          [] OTHER -> WalletNew(0, EmptyMap)]

InitParties ==
    /\ wallets = PartyWallets
    /\ assets = SwapAssets
    /\ statuses = EmptyMap
    /\ config \in Configurations
    /\ last = [NoCall EXCEPT !.wallets = PartyWallets, !.assets = SwapAssets]
    /\ calls = 0
    /\ node = NodeIdle({})
    /\ fuzzing = FALSE

NextParties == \E tx \in PartyTxs : ExchangeExecute(tx)

SpecParties == InitParties /\ [][NextParties]_vars

-----------------------------------------------------------------------------
(* C31 *)

\* C31: in a successful Exchange the sender held, before the transaction,
\* every amount it offers; the recipient held every amount it offers once
\* the sender's bundles are added to what it held before: its bundles are
\* moved second, on the wallets the first move left.
C31_SenderBundlesFirst ==
    Succeeded("exchange") =>
        LET offer == last.tx.offer IN
        \A id \in NamedIds(offer) :
            /\ AmountOf(offer.sender_assets, id)
                <= Holding(last.wallets[offer.sender], id)
            /\ AmountOf(offer.recipient_assets, id)
                <= Holding(last.wallets[offer.recipient], id)
                    + AmountOf(offer.sender_assets, id)

\* the Exchange succeeded although the recipient held nothing of the
\* asset it gives: it gave back what the sender had just given
C31_Witness ==
    /\ Succeeded("exchange")
    /\ \E i \in 1..Len(last.tx.offer.recipient_assets) :
        LET b == last.tx.offer.recipient_assets[i] IN
        /\ b.amount > 0
        /\ Holding(last.wallets[last.tx.offer.recipient], b.id) = 0
        /\ AmountOf(last.tx.offer.sender_assets, b.id) >= b.amount

-----------------------------------------------------------------------------
(* C32 *)

SplitFeeUnaffordable ==
    /\ Executed("exchange")
    /\ LastStrategy = "RecipientAndSender"
    /\ \E k \in {last.tx.offer.sender, last.tx.offer.recipient} :
        last.wallets[k].balance < config.exchange \div 2

\* C32: under the split strategy, when the recipient or the sender cannot
\* pay its half of the flat fee, the Exchange fails with InsufficientFunds,
\* the other party keeps its half and the Treasury its balance: no wallet
\* of the fork differs from before.
C32_SplitFeeBothOrNeither ==
    SplitFeeUnaffordable =>
        /\ last.result = Err("InsufficientFunds")
        /\ wallets[last.tx.offer.sender] = last.wallets[last.tx.offer.sender]
        /\ wallets[last.tx.offer.recipient]
            = last.wallets[last.tx.offer.recipient]
        /\ wallets[GENESIS] = last.wallets[GENESIS]
        /\ WalletsUnchanged

\* the sender could not pay its half, the recipient, whose half is moved
\* first, could; and before that the recipient of another Exchange could
\* not while its sender could
C32_Witness ==
    /\ SplitFeeUnaffordable
    /\ last.wallets[last.tx.offer.sender].balance < config.exchange \div 2
    /\ last.wallets[last.tx.offer.recipient].balance >= config.exchange \div 2
    /\ \E h \in DOMAIN statuses :
        /\ h.offer.fee_strategy = 3
        /\ h.offer.recipient = "C"
        /\ statuses[h] = Err("InsufficientFunds")

-----------------------------------------------------------------------------
(* C33 *)

\* amount x tax over the bundles of both parties
TaxOfOffer(offer) ==
    LET both == offer.sender_assets \o offer.recipient_assets
        F[i \in 0..Len(both)] ==
            IF i = 0 THEN 0
            ELSE F[i - 1] + last.assets[both[i].id].tax * both[i].amount
    IN F[Len(both)]

\* what party k of the offer pays of the flat fee and of the taxes; the
\* assets of the offers are of one creator
FeesOf(k, offer) ==
    CASE LastStrategy = "RecipientAndSender" ->
            (config.exchange \div 2) + (TaxOfOffer(offer) \div 2)
      [] LastStrategy = "Recipient" /\ k = offer.recipient ->
            config.exchange + TaxOfOffer(offer)
      [] LastStrategy = "Sender" /\ k = offer.sender ->
            config.exchange + TaxOfOffer(offer)
      [] OTHER -> 0

\* neither party is the Treasury or a creator of an asset of the offer
PartiesReceiveNoFee ==
    /\ ReceivesNoFee(last.tx.offer.sender, last.tx.offer)
    /\ ReceivesNoFee(last.tx.offer.recipient, last.tx.offer)

\* C33: the taxes of an Exchange are amount x tax over the bundles of both
\* parties, charged after the flat fee to the recipient under Recipient,
\* to the sender under Sender and half to each under the split strategy.
\* After a successful Exchange a party's balance is its balance before less
\* its flat fee, less its taxes, with sender_value moved; the creator has
\* the taxes. A payer that can pay the flat fee but not the taxes on top of
\* it makes the Exchange fail with InsufficientFunds after the flat fee
\* was collected.
C33_ThirdPartyTaxes ==
    LET offer == last.tx.offer
        s == offer.sender
        r == offer.recipient
        v == offer.sender_value
    IN
    /\ (Succeeded("exchange") /\ PartiesReceiveNoFee) =>
        /\ wallets[s].balance = last.wallets[s].balance - FeesOf(s, offer) - v
        /\ wallets[r].balance = last.wallets[r].balance - FeesOf(r, offer) + v
        /\ "C" \notin {s, r} =>
            wallets["C"].balance =
                last.wallets["C"].balance
                    + (IF LastStrategy = "RecipientAndSender"
                       THEN 2 * (TaxOfOffer(offer) \div 2)
                       ELSE TaxOfOffer(offer))
    /\ (/\ Executed("exchange")
        /\ PartiesReceiveNoFee
        /\ LastStrategy \in {"Recipient", "Sender"}
        /\ \E k \in FlatFeePayers(offer) :
            /\ last.wallets[k].balance >= config.exchange
            /\ last.wallets[k].balance
                < config.exchange + TaxOfOffer(offer)) =>
        /\ last.result = Err("InsufficientFunds")
        /\ wallets[GENESIS].balance
            = last.wallets[GENESIS].balance + config.exchange
        /\ "C" \notin {s, r} => wallets["C"] = last.wallets["C"]
        /\ HoldingsUnchanged

\* the sender paid the flat fee, the taxes of its own and of the
\* recipient's bundle, and sent coins; before that an Exchange failed on
\* the taxes, its flat fee collected
C33_Witness ==
    /\ Succeeded("exchange")
    /\ PartiesReceiveNoFee
    /\ LastStrategy = "Sender"
    /\ last.tx.offer.sender_assets # <<>>
    /\ last.tx.offer.recipient_assets # <<>>
    /\ last.tx.offer.sender_value > 0
    /\ TaxOfOffer(last.tx.offer) >= 2
    /\ \E h \in DOMAIN statuses :
        /\ statuses[h] = Err("InsufficientFunds")
        /\ h.offer.fee_strategy \in {1, 2}
        /\ wallets[GENESIS].balance > config.exchange


-----------------------------------------------------------------------------
(* C34 *)

\* the amount the last AddAssets issues of id to the wallet k
IssuedTo(k, id) ==
    LET metas == last.tx.meta_assets
        F[i \in 0..Len(metas)] ==
            IF i = 0 THEN 0
            ELSE F[i - 1]
                + (IF metas[i].receiver = k /\ LastMetaId(i) = id
                   THEN metas[i].amount ELSE 0)
    IN F[Len(metas)]

\* C34: after a successful AddAssets of an issuer other than the Treasury
\* the issuer's stored wallet has its balance less the fees, also when it
\* is a receiver, and every wallet holds what it held before and the
\* bundles of all the meta assets that name it.
C34_IssuerAsReceiver ==
    (Succeeded("add_assets") /\ last.tx.pub_key # GENESIS) =>
        /\ wallets[last.tx.pub_key].balance =
            last.wallets[last.tx.pub_key].balance
                - (LastFees.for_transaction + LastFees.for_assets_total)
        /\ \A k \in Keys :
            \A id \in IdsInUse :
                Holding(wallets[k], id)
                    = Holding(last.wallets[k], id) + IssuedTo(k, id)

\* the issuer received two bundles of two assets and paid the fees
C34_Witness ==
    /\ Succeeded("add_assets")
    /\ Len(last.tx.meta_assets) = 2
    /\ last.tx.meta_assets[1].receiver = last.tx.pub_key
    /\ last.tx.meta_assets[2].receiver = last.tx.pub_key
    /\ LastMetaId(1) # LastMetaId(2)
    /\ Holding(wallets[last.tx.pub_key], LastMetaId(1))
        > Holding(last.wallets[last.tx.pub_key], LastMetaId(1))
    /\ Holding(wallets[last.tx.pub_key], LastMetaId(2))
        > Holding(last.wallets[last.tx.pub_key], LastMetaId(2))
    /\ wallets[last.tx.pub_key].balance
        < last.wallets[last.tx.pub_key].balance


-----------------------------------------------------------------------------
(* The fee objects, computed on the fork without executing *)

\* self.fees(view) of an AddAssets
AddAssetsFeesCall(tx) ==
    /\ calls < MaxTx
    /\ calls' = calls + 1
    /\ last' = [kind |-> "add_assets_fees", tx |-> tx, panic |-> FALSE,
                result |-> AddAssetsFees(config, tx), step |-> "fees",
                wallets |-> wallets, assets |-> assets,
                statuses |-> statuses]
    /\ UNCHANGED <<wallets, assets, statuses, config, fuzzing, node>>

\* ThirdPartyFees::new_exchange(&*view, ...) of an Exchange
ExchangeFeesCall(tx) ==
    /\ calls < MaxTx
    /\ calls' = calls + 1
    /\ last' = [kind |-> "exchange_fees", tx |-> tx, panic |-> FALSE,
                result |-> ThirdPartyFeesNewExchange(assets,
                    tx.offer.sender_assets \o tx.offer.recipient_assets),
                step |-> "fees", wallets |-> wallets, assets |-> assets,
                statuses |-> statuses]
    /\ UNCHANGED <<wallets, assets, statuses, config, fuzzing, node>>

FeeIssueTxs ==
    {AddAssetsTx(k, ms) :
        k \in {"A", "C"},
        ms \in {<<[data |-> "p", receiver |-> "A", amount |-> 1, tax |-> 2]>>,
                <<[data |-> "p", receiver |-> "A", amount |-> 2, tax |-> 2],
                  [data |-> "r", receiver |-> "B", amount |-> 1, tax |-> 1]>>}}

NextFeeObjects ==
    \/ \E tx \in FeeIssueTxs : AddAssetsFeesCall(tx)
    \/ \E tx \in FeeExchangeTxs : ExchangeFeesCall(tx)
    \/ \E tx \in FeeExchangeTxs : ExchangeExecute(tx)
    \/ \E tx \in FeeDeleteTxs : DeleteAssetsExecute(tx)

SpecFeeObjects == InitFees /\ [][NextFeeObjects]_vars

-----------------------------------------------------------------------------
(* C35 *)

\* amount x tax over the bundles of the assets the key created
TaxFor(creator, bundles) ==
    LET F[i \in 0..Len(bundles)] ==
            IF i = 0 THEN 0
            ELSE F[i - 1]
                + (IF last.assets[bundles[i].id].creator = creator
                   THEN last.assets[bundles[i].id].tax * bundles[i].amount
                   ELSE 0)
    IN F[Len(bundles)]

\* the amounts of the meta assets of the last call
IssuedAmount ==
    LET metas == last.tx.meta_assets
        F[i \in 0..Len(metas)] ==
            IF i = 0 THEN 0 ELSE F[i - 1] + metas[i].amount
    IN F[Len(metas)]

-----------------------------------------------------------------------------
(* AssetID: the 16 byte identifier and its text form *)

\* mem::size_of::<AssetIDBytes>()
SizeOfAssetIDBytes == 16

\* the length from_str asks for
TextLen == 32

\* A str is a sequence of chars; a char is written as its text and the one
\* char outside ASCII as its code point.  It takes two bytes in UTF-8.
Utf8Len(c) == IF c = "U+00E9" THEN 2 ELSE 1

\* str::len: the length in bytes
str_len(us) ==
    LET F[i \in 0..Len(us)] ==
            IF i = 0 THEN 0 ELSE F[i - 1] + Utf8Len(us[i])
    IN F[Len(us)]

LowerDigits ==
    <<"0", "1", "2", "3", "4", "5", "6", "7", "8", "9",
      "a", "b", "c", "d", "e", "f">>

UpperDigits ==
    <<"0", "1", "2", "3", "4", "5", "6", "7", "8", "9",
      "A", "B", "C", "D", "E", "F">>

NoDigit == 0 - 1

\* char::to_digit(16), NoDigit for None
to_digit(c) ==
    IF \E i \in 1..16 : LowerDigits[i] = c
    THEN (CHOOSE i \in 1..16 : LowerDigits[i] = c) - 1
    ELSE IF \E i \in 1..16 : UpperDigits[i] = c
    THEN (CHOOSE i \in 1..16 : UpperDigits[i] = c) - 1
    ELSE NoDigit

\* char::is_digit(16)
is_digit(c) == to_digit(c) # NoDigit

ParseOk(id) == [ok |-> TRUE, id |-> id]

InvalidLength(n) == [ok |-> FALSE, err |-> "InvalidLength", len |-> n]

InvalidCharacter(c, i) ==
    [ok |-> FALSE, err |-> "InvalidCharacter", char |-> c, at |-> i]

UnexpectedErrorAt(i) == [ok |-> FALSE, err |-> "UnexpectedErrorAt", at |-> i]

\* u8::from_str_radix(s, 16): an optional plus sign, then one digit or
\* more, the value within a byte; NoDigit for Err
from_str_radix(s) ==
    LET digits == IF Len(s) > 0 /\ s[1] = "+" THEN Tail(s) ELSE s
        F[i \in 0..Len(digits)] ==
            IF i = 0 THEN 0 ELSE F[i - 1] * 16 + to_digit(digits[i])
    IN IF Len(digits) = 0 \/ \E i \in 1..Len(digits) : ~is_digit(digits[i])
       THEN NoDigit
       ELSE IF F[Len(digits)] > 255 THEN NoDigit ELSE F[Len(digits)]

nil == [bytes |-> [i \in 1..SizeOfAssetIDBytes |-> 0]]

as_bytes(id) == id.bytes

from_bytes(b) ==
    IF Len(b) # SizeOfAssetIDBytes
    THEN InvalidLength(Len(b))
    ELSE ParseOk([nil EXCEPT !.bytes = b])

\* variant: the characters are looked at before the length
from_str_chars_first(us) ==
    LET bad == {i \in 1..Len(us) : ~is_digit(us[i])} IN
    IF bad # {}
    THEN LET i == CHOOSE i \in bad : \A j \in bad : i <= j
         IN InvalidCharacter(us[i], i - 1)
    ELSE IF str_len(us) # TextLen
    THEN InvalidLength(str_len(us))
    ELSE from_bytes([i \in 1..SizeOfAssetIDBytes |->
                        from_str_radix(SubSeq(us, 2 * i - 1, 2 * i))])

\* The positions of enumerate() count chars from 0.  The slices
\* us[offset..to] are taken once every char is an ASCII digit, so a byte
\* offset is a char offset there.
from_str(us) ==
    LET len == str_len(us)
        bad == {i \in 1..Len(us) : ~is_digit(us[i])}
        slice(i) == SubSeq(us, 2 * (i - 1) + 1, 2 * (i - 1) + 2)
        failed == {i \in 1..SizeOfAssetIDBytes :
                        from_str_radix(slice(i)) = NoDigit}
    IN IF len # TextLen
       THEN InvalidLength(len)
       ELSE IF bad # {}
       THEN LET i == CHOOSE i \in bad : \A j \in bad : i <= j
            IN InvalidCharacter(us[i], i - 1)
       ELSE IF failed # {}
       THEN LET i == CHOOSE i \in failed : \A j \in failed : i <= j
            IN UnexpectedErrorAt(2 * (i - 1))
       ELSE from_bytes([i \in 1..SizeOfAssetIDBytes |->
                            from_str_radix(slice(i))])

\* variant: format!("{:x}") without the width
byte_hex_unpadded(byte) ==
    IF byte < 16 THEN <<LowerDigits[byte + 1]>>
    ELSE <<LowerDigits[(byte \div 16) + 1], LowerDigits[(byte % 16) + 1]>>

\* format!("{:02x}", byte)
byte_hex(byte) ==
    <<LowerDigits[(byte \div 16) + 1], LowerDigits[(byte % 16) + 1]>>

to_string(id) ==
    LET F[i \in 0..Len(id.bytes)] ==
            IF i = 0 THEN <<>> ELSE F[i - 1] \o byte_hex(id.bytes[i])
    IN F[Len(id.bytes)]

\* one call on an identifier or on its text
AssetIDCall(kind, input, result) ==
    /\ calls < MaxTx
    /\ calls' = calls + 1
    /\ last' = [kind |-> kind, tx |-> input, panic |-> FALSE,
                result |-> result, step |-> "assetid", wallets |-> wallets,
                assets |-> assets, statuses |-> statuses]
    /\ UNCHANGED <<wallets, assets, statuses, config, fuzzing, node>>

FromBytesCall(b) == AssetIDCall("from_bytes", b, from_bytes(b))

FromStrCall(us) == AssetIDCall("from_str", us, from_str(us))

\* from_bytes(b).unwrap(), to_string and as_bytes of it, and the text
\* parsed again
ToStringCall(b) ==
    /\ from_bytes(b).ok
    /\ LET id == from_bytes(b).id IN
       AssetIDCall("to_string", b,
            [id |-> id, text |-> to_string(id), as_bytes |-> as_bytes(id),
             parsed |-> from_str(to_string(id))])

\* from_str(us).unwrap(), to_string and as_bytes of it
AsBytesCall(us) ==
    /\ from_str(us).ok
    /\ LET id == from_str(us).id IN
       AssetIDCall("as_bytes", us,
            [id |-> id, text |-> to_string(id), as_bytes |-> as_bytes(id)])

ByteValues == {0, 9, 255}

TestBytes ==
    <<161, 162, 163, 164, 177, 178, 193, 194, 209, 210, 211, 212,
      213, 214, 215, 216>>

AssetIDArrays ==
    {TestBytes, nil.bytes}
        \cup {[i \in 1..SizeOfAssetIDBytes |-> IF i \in S THEN v ELSE w] :
                v \in ByteValues, w \in ByteValues,
                S \in {{1}, {16}, 1..8, {2, 3, 5, 7, 11, 13}}}

ByteSlices ==
    AssetIDArrays
        \cup {SubSeq(TestBytes, 1, n) : n \in {0, 1, 15}}
        \cup {TestBytes \o <<0>>, TestBytes \o TestBytes}

TestText ==
    <<"6", "7", "e", "5", "5", "0", "4", "4", "1", "0", "b", "1",
      "4", "2", "6", "f", "9", "2", "4", "7", "b", "b", "6", "8",
      "0", "e", "5", "f", "e", "0", "c", "8">>

TestTextAsBytes ==
    <<"a", "1", "a", "2", "a", "3", "a", "4", "b", "1", "b", "2",
      "c", "1", "c", "2", "d", "1", "d", "2", "d", "3", "d", "4",
      "d", "5", "d", "6", "d", "7", "d", "8">>

ToUpper(c) ==
    IF \E i \in 1..16 : LowerDigits[i] = c
    THEN UpperDigits[CHOOSE i \in 1..16 : LowerDigits[i] = c]
    ELSE c

NilText == [i \in 1..TextLen |-> "0"]

HexTexts ==
    LET lower == {TestText, TestTextAsBytes, NilText} IN
    lower \cup {[i \in 1..TextLen |->
                    IF i \in S THEN ToUpper(us[i]) ELSE us[i]] :
                        us \in lower, S \in {{1}, {16, 32}, 1..TextLen}}

OtherChars == {"%", "!", "g", "G", "+", "-", " ", "U+00E9"}

Texts ==
    HexTexts
        \cup {[us EXCEPT ![p] = c] :
                us \in {TestText}, p \in {1, 16, 32}, c \in OtherChars}
        \cup {[us EXCEPT ![p] = c, ![32] = d] :
                us \in {TestText}, p \in {1, 16}, c \in OtherChars,
                d \in {"%"}}
        \cup {SubSeq([TestText EXCEPT ![p] = c], 1, n) :
                p \in {1, 16}, c \in OtherChars \cup {"0"},
                n \in {0, 1, 31}}
        \cup {TestText \o <<c>> : c \in OtherChars \cup {"0"}}
        \cup {<<c>> : c \in OtherChars}

NextAssetID ==
    \/ \E b \in ByteSlices : FromBytesCall(b)
    \/ \E us \in Texts : FromStrCall(us)
    \/ \E b \in AssetIDArrays : ToStringCall(b)
    \/ \E us \in HexTexts : AsBytesCall(us)

SpecAssetID == InitLedger /\ [][NextAssetID]_vars

-----------------------------------------------------------------------------
(* C36 *)

\* the value of a lower-case hexadecimal character
HexValue ==
    ("0" :> 0) @@ ("1" :> 1) @@ ("2" :> 2) @@ ("3" :> 3) @@ ("4" :> 4)
        @@ ("5" :> 5) @@ ("6" :> 6) @@ ("7" :> 7) @@ ("8" :> 8)
        @@ ("9" :> 9) @@ ("a" :> 10) @@ ("b" :> 11) @@ ("c" :> 12)
        @@ ("d" :> 13) @@ ("e" :> 14) @@ ("f" :> 15)

\* the lower-case form of an upper-case hexadecimal letter
LowerOf ==
    ("A" :> "a") @@ ("B" :> "b") @@ ("C" :> "c") @@ ("D" :> "d")
        @@ ("E" :> "e") @@ ("F" :> "f")

InLowerCase(us) ==
    [i \in DOMAIN us |->
        IF us[i] \in DOMAIN LowerOf THEN LowerOf[us[i]] ELSE us[i]]

\* C36: for a 16 byte identifier b, the text of from_bytes(b) parses back
\* to the same identifier and as_bytes returns b; the text has 32
\* lower-case hexadecimal characters, two per byte in byte order, the high
\* half first; and the text of a parsed 32 character hexadecimal string is
\* that string in lower case.
C36_TextRoundTrip ==
    /\ last.kind = "to_string" =>
        /\ last.result.parsed = from_bytes(last.tx)
        /\ last.result.parsed.ok
        /\ last.result.parsed.id.bytes = last.tx
        /\ last.result.as_bytes = last.tx
        /\ Len(last.result.text) = 32
        /\ \A i \in 1..32 : last.result.text[i] \in DOMAIN HexValue
        /\ \A i \in 1..16 :
            16 * HexValue[last.result.text[2 * i - 1]]
                + HexValue[last.result.text[2 * i]] = last.tx[i]
    /\ last.kind = "as_bytes" =>
        /\ last.result.text = InLowerCase(last.tx)
        /\ \A i \in 1..16 :
            16 * HexValue[InLowerCase(last.tx)[2 * i - 1]]
                + HexValue[InLowerCase(last.tx)[2 * i]]
                    = last.result.as_bytes[i]

\* an identifier with a byte below 16 and a byte above 160 was printed and
\* its text, with a leading zero for the small byte, parsed back to it
C36_Witness ==
    /\ last.kind = "to_string"
    /\ \E i \in 1..16 : last.tx[i] = 9 /\ last.result.text[2 * i - 1] = "0"
    /\ \E i \in 1..16 : last.tx[i] = 255
    /\ last.result.parsed = ParseOk([bytes |-> last.tx])

-----------------------------------------------------------------------------
(* C37 *)

\* the length of a str in bytes, counted char by char
BytesOf(us) == Len(us) + Cardinality({i \in 1..Len(us) : us[i] = "U+00E9"})

IsHex(c) == c \in DOMAIN HexValue \cup DOMAIN LowerOf

\* C37: from_str returns InvalidLength(n) for every string whose length
\* in bytes n is not 32, whatever its characters; for a string of 32
\* bytes it returns InvalidCharacter(c, i) with i the position, from 0,
\* of the first character c that is no hexadecimal digit, and Ok when
\* there is none; from_bytes returns InvalidLength(n) exactly when the
\* slice length n is not 16.
C37_ParseErrors ==
    /\ last.kind = "from_str" =>
        IF BytesOf(last.tx) # 32
        THEN last.result = InvalidLength(BytesOf(last.tx))
        ELSE IF \E i \in 1..Len(last.tx) : ~IsHex(last.tx[i])
        THEN \E i \in 1..Len(last.tx) :
                /\ ~IsHex(last.tx[i])
                /\ \A j \in 1..(i - 1) : IsHex(last.tx[j])
                /\ last.result = InvalidCharacter(last.tx[i], i - 1)
        ELSE last.result.ok
    /\ last.kind = "from_bytes" =>
        /\ ~last.result.ok <=> Len(last.tx) # 16
        /\ ~last.result.ok => last.result = InvalidLength(Len(last.tx))

\* a string of 31 bytes whose first character is no hexadecimal digit was
\* parsed: the error is the length, not the character
C37_Witness ==
    /\ last.kind = "from_str"
    /\ BytesOf(last.tx) = 31
    /\ ~IsHex(last.tx[1])
    /\ last.result = InvalidLength(31)


-----------------------------------------------------------------------------
(* dmbc-node: registration with the discovery service *)

ValidatorInfos == {"V1", "V2"}

\* connect_validator up to the answer of receive_nodes: the GET fails and
\* the error is returned, or the set registered is kept as nodes
ConnectValidator(info) ==
    /\ calls < MaxTx
    /\ node.pc \in {"idle", "returned"}
    /\ calls' = calls + 1
    /\ \E received \in BOOLEAN :
        node' = IF received
                THEN [node EXCEPT !.pc = "received", !.info = info,
                                  !.nodes = node.service,
                                  !.before = Len(node.threads),
                                  !.result = [ok |-> FALSE, err |-> "none",
                                              nodes |-> {}]]
                ELSE [node EXCEPT !.pc = "returned", !.info = info,
                                  !.nodes = {},
                                  !.before = Len(node.threads),
                                  !.result = [ok |-> FALSE,
                                              err |-> "receive_nodes",
                                              nodes |-> {}]]
    /\ UNCHANGED <<wallets, assets, statuses, config, fuzzing, last>>

\* if nodes.contains(info) { return Ok(nodes); }
ReturnContained ==
    /\ node.pc = "received"
    /\ node.info \in node.nodes
    /\ node' = [node EXCEPT !.pc = "returned",
                            !.result = [ok |-> TRUE, err |-> "none",
                                        nodes |-> node.nodes]]
    /\ UNCHANGED <<wallets, assets, statuses, config, fuzzing, last, calls>>

\* send_node(&discovery, info)?: the request is prepared and a thread is
\* spawned to perform it, or preparing it fails and the error is returned
SendNode ==
    /\ node.pc = "received"
    /\ node.info \notin node.nodes
    /\ \E prepared \in BOOLEAN :
        node' = IF prepared
                THEN [node EXCEPT !.pc = "sent",
                        !.threads = Append(node.threads,
                            [info |-> node.info, state |-> "running"])]
                ELSE [node EXCEPT !.pc = "returned",
                        !.result = [ok |-> FALSE, err |-> "send_node",
                                    nodes |-> {}]]
    /\ UNCHANGED <<wallets, assets, statuses, config, fuzzing, last, calls>>

\* variant: the set is read again from the service before it is returned
ReturnNodesFresh ==
    /\ node.pc = "sent"
    /\ node' = [node EXCEPT !.pc = "returned",
                            !.result = [ok |-> TRUE, err |-> "none",
                                        nodes |-> node.service]]
    /\ UNCHANGED <<wallets, assets, statuses, config, fuzzing, last, calls>>

\* Ok(nodes) after send_node
ReturnNodes ==
    /\ node.pc = "sent"
    /\ node' = [node EXCEPT !.pc = "returned",
                            !.result = [ok |-> TRUE, err |-> "none",
                                        nodes |-> node.nodes]]
    /\ UNCHANGED <<wallets, assets, statuses, config, fuzzing, last, calls>>

\* the spawned closure: handle.perform() registers the info, or fails and
\* the error is printed
Perform(t) ==
    /\ node.threads[t].state = "running"
    /\ \E performed \in BOOLEAN :
        node' = IF performed
                THEN [node EXCEPT !.threads[t].state = "done",
                        !.service = node.service \cup {node.threads[t].info}]
                ELSE [node EXCEPT !.threads[t].state = "failed",
                                  !.log = node.log + 1]
    /\ UNCHANGED <<wallets, assets, statuses, config, fuzzing, last, calls>>

NodeTxs ==
    {ExchangeTx("A", "B",
                Body(2, <<AssetBundleNew(AssetX, 1)>>,
                        <<AssetBundleNew(AssetY, 1)>>),
                1, "A", "B")}

InitNode ==
    /\ wallets = PartyWallets
    /\ assets = SwapAssets
    /\ statuses = EmptyMap
    /\ config \in Configurations
    /\ last = [NoCall EXCEPT !.wallets = PartyWallets, !.assets = SwapAssets]
    /\ calls = 0
    /\ fuzzing = FALSE
    /\ node \in {NodeIdle(registered) : registered \in SUBSET ValidatorInfos}

NextNode ==
    \/ \E info \in ValidatorInfos : ConnectValidator(info)
    \/ ReturnContained
    \/ SendNode
    \/ ReturnNodes
    \/ \E t \in DOMAIN node.threads : Perform(t)
    \/ \E tx \in NodeTxs : ExchangeExecute(tx)

SpecNode == InitNode /\ [][NextNode]_vars

-----------------------------------------------------------------------------
(* C38 *)

\* the threads the current call of connect_validator has spawned
Spawned == Len(node.threads) - node.before

\* the part of the fork and of the node a step may change
Ledger == <<wallets, assets, statuses, config>>

\* connect_validator has returned
NodeReturned ==
    /\ (node.pc = "returned" /\ node.result.ok) =>
        /\ node.result.nodes = node.nodes
        /\ node.info \in node.nodes => Spawned = 0
        /\ node.info \notin node.nodes => Spawned = 1
    /\ (node.pc = "returned" /\ ~node.result.ok) => Spawned = 0
    /\ node.pc = "sent" => Spawned = 1
    /\ node.log = Cardinality({t \in DOMAIN node.threads :
                                    node.threads[t].state = "failed"})

\* C38: when connect_validator returns Ok it returns the set as fetched,
\* having started no registration when the info was in that set and
\* exactly one when it was not; when fetching the set or preparing the
\* request fails it returns the error and starts none; a failed POST is
\* only printed; and no step of connect_validator or of its threads
\* changes the ledger, no ledger call changes the node.
C38_Registration ==
    /\ []NodeReturned
    /\ [][/\ node' # node => Ledger' = Ledger
          /\ Ledger' # Ledger => node' = node]_vars

\* connect_validator returned Ok with a set that lacks the info while the
\* POST it started is still running, after the POST of an earlier call
\* had failed and been printed
C38_Witness ==
    /\ node.pc = "returned"
    /\ node.result.ok
    /\ node.info \notin node.result.nodes
    /\ Spawned = 1
    /\ node.threads[Len(node.threads)].state = "running"
    /\ node.log = 1
    /\ node.threads[1].state = "failed"

\* C38 as first stated: whenever the set was fetched, connect_validator
\* returns it, having started one registration exactly when the info was
\* not in it
C38_AlwaysRegisters ==
    (node.pc = "returned" /\ node.result.err # "receive_nodes") =>
        /\ node.result.ok
        /\ node.result.nodes = node.nodes
        /\ Spawned = (IF node.info \in node.nodes THEN 0 ELSE 1)

====
